---- MODULE Spec2Model ----
(***************************************************************************)
(* Terraform provider for UniFi Network: the provider's Configure, the     *)
(* resources' Create/Read/Update/Delete/ImportState handlers and the data  *)
(* sources' Read handlers, as a state machine over one provider instance   *)
(* and one managed object.  The remote API client is external: every call  *)
(* returns either an error string or a response drawn from a bounded set.  *)
(***************************************************************************)
EXTENDS Integers, Sequences, FiniteSets, TLC

VARIABLES
    env,        \* process environment: UNIFI_API_KEY, UNIFI_BASE_URL
    provider,   \* the provider's ConfigureResponse
    kind,       \* the resource or data source type of the managed object
    client,     \* the object's client field: <<>> (nil) or <<c>>
    state,      \* the object's Terraform state: <<>> (absent) or <<attrs>>
    last        \* the last handler invocation: request, client calls, diagnostics

vars == <<env, provider, kind, client, state, last>>

-----------------------------------------------------------------------------
(* Framework attribute values (types.String, types.Bool, types.Int64,      *)
(* types.List): a state (null, unknown, known) and the underlying Go value, *)
(* which is the zero value unless the state is known.                      *)

StringValue(s) == [state |-> "known", value |-> s]
StringNull == [state |-> "null", value |-> ""]
StringUnknown == [state |-> "unknown", value |-> ""]
BoolValue(b) == [state |-> "known", value |-> b]
BoolNull == [state |-> "null", value |-> FALSE]
Int64Value(n) == [state |-> "known", value |-> n]
Int64Null == [state |-> "null", value |-> 0]
ListValue(elems) == [state |-> "known", value |-> elems]
ListNull == [state |-> "null", value |-> <<>>]

IsNull(v) == v.state = "null"
IsUnknown(v) == v.state = "unknown"
ValueString(v) == v.value
ValueBool(v) == v.value
ValueInt64(v) == v.value

\* A Go pointer: <<>> is nil, <<x>> points to x.
NilPtr == <<>>
Ptr(x) == <<x>>

\* One diagnostic of severity error.
ErrorDiag(summary, detail) == [severity |-> "error", summary |-> summary, detail |-> detail]
AttributeErrorDiag(attr, summary) == [severity |-> "error", summary |-> summary, path |-> attr]

HasError(diags) == \E i \in 1..Len(diags) : diags[i].severity = "error"

\* What the external client returned: an error, or a response.
Failed(out) == out.err # <<>>
NoOutcome == [err |-> <<>>, resp |-> <<>>]
ErrStrings == {"404 not found", "request timeout"}

Idle == [op |-> "none", input |-> <<>>, plan |-> <<>>, prior |-> <<>>, calls |-> <<>>,
         diags |-> <<>>, out |-> NoOutcome]

-----------------------------------------------------------------------------
(* The provider.                                                           *)

EnvKeys == {"", "env-key", "env-key-2"}
EnvURLs == {"", "https://env.example", "https://env2.example"}
Envs == [UNIFI_API_KEY : EnvKeys, UNIFI_BASE_URL : EnvURLs]

ProviderConfigs ==
    [api_key : {StringNull, StringUnknown, StringValue(""), StringValue("cfg-key")},
     base_url : {StringNull, StringUnknown, StringValue(""), StringValue("https://cfg.example")}]

\* network.NewClient / sitemanager.NewClient: the key and the options passed.
NewClient(service, apiKey, opts) == [service |-> service, apiKey |-> apiKey, opts |-> opts]
WithBaseURL(url) == [option |-> "WithBaseURL", url |-> url]

Unconfigured == [diags |-> <<>>, ResourceData |-> <<>>, DataSourceData |-> <<>>]

Mut_ProviderConfigureEnvURLFirst(config, e) ==
    LET apiKey == IF ~IsNull(config.api_key) THEN ValueString(config.api_key) ELSE e.UNIFI_API_KEY
        baseURL == IF e.UNIFI_BASE_URL # "" THEN e.UNIFI_BASE_URL ELSE ValueString(config.base_url)
        opts == IF baseURL # "" THEN <<WithBaseURL(baseURL)>> ELSE <<>>
        clients == [Network |-> NewClient("network", apiKey, opts),
                    SiteManager |-> NewClient("site-manager", apiKey, opts)]
    IN  IF apiKey = ""
        THEN [diags |-> <<AttributeErrorDiag("api_key", "Missing UniFi API Key")>>,
              ResourceData |-> <<>>, DataSourceData |-> <<>>]
        ELSE [diags |-> <<>>, ResourceData |-> <<clients>>, DataSourceData |-> <<clients>>]

Mut_ProviderConfigureEnvOnly(config, e) ==
    LET apiKey == e.UNIFI_API_KEY
        baseURL == IF ~IsNull(config.base_url) THEN ValueString(config.base_url) ELSE e.UNIFI_BASE_URL
        opts == IF baseURL # "" THEN <<WithBaseURL(baseURL)>> ELSE <<>>
        clients == [Network |-> NewClient("network", apiKey, opts),
                    SiteManager |-> NewClient("site-manager", apiKey, opts)]
    IN  IF apiKey = ""
        THEN [diags |-> <<AttributeErrorDiag("api_key", "Missing UniFi API Key")>>,
              ResourceData |-> <<>>, DataSourceData |-> <<>>]
        ELSE [diags |-> <<>>, ResourceData |-> <<clients>>, DataSourceData |-> <<clients>>]

\* UnifiNetworkProvider.Configure: the response for a configuration and an environment.
ProviderConfigureResp(config, e) ==
    LET apiKey == IF ~IsNull(config.api_key) THEN ValueString(config.api_key) ELSE e.UNIFI_API_KEY
        baseURL == IF ~IsNull(config.base_url) THEN ValueString(config.base_url) ELSE e.UNIFI_BASE_URL
        opts == IF baseURL # "" THEN <<WithBaseURL(baseURL)>> ELSE <<>>
        clients == [Network |-> NewClient("network", apiKey, opts),
                    SiteManager |-> NewClient("site-manager", apiKey, opts)]
    IN  IF apiKey = ""
        THEN [diags |-> <<AttributeErrorDiag("api_key", "Missing UniFi API Key")>>,
              ResourceData |-> <<>>, DataSourceData |-> <<>>]
        ELSE [diags |-> <<>>, ResourceData |-> <<clients>>, DataSourceData |-> <<clients>>]

ProviderConfigure ==
    /\ last.op = "none"
    /\ \E config \in ProviderConfigs :
          /\ provider' = ProviderConfigureResp(config, env)
          /\ last' = [Idle EXCEPT !.op = "ProviderConfigure", !.input = <<config>>,
                                  !.diags = provider'.diags]
    /\ UNCHANGED <<env, kind, client, state>>

InitProvider ==
    /\ env \in Envs
    /\ provider = Unconfigured
    /\ kind = "provider"
    /\ client = <<>>
    /\ state = <<>>
    /\ last = Idle

NextProvider == ProviderConfigure

SpecProvider == InitProvider /\ [][NextProvider]_vars

-----------------------------------------------------------------------------
(* Inputs of the resources: bounded sets of sites, names and identifiers.  *)

Sites == {"site-1", "site-2"}
Names == {"alpha", "beta"}
IDs == {"id-1", "id-2"}

\* At most this many of a resource's optional attributes are set in one configuration.
MaxOptionalSet == 1

\* The optional attributes of a configuration that are set (not null).
SetOf(config, optional) == {a \in optional : ~IsNull(config[a])}
AtMostSet(configs, optional) ==
    {c \in configs : Cardinality(SetOf(c, optional)) <= MaxOptionalSet}

\* A schema Default: the planned value of an optional+computed attribute.
Default(v, d) == IF IsNull(v) THEN d ELSE v

Mut_IdRecomputed(prior, attr) == StringUnknown

\* UseStateForUnknown on a computed attribute: the prior value, or unknown on create.
UseStateForUnknown(prior, attr) == IF prior = <<>> THEN StringUnknown ELSE prior[1][attr]

\* fmt.Sprintf("<what>: %s", err): the text before the verb and the error it formats.
Sprintf(what, err) == <<what, err>>

ClientError(what, out) == ErrorDiag("Client Error", Sprintf(what, out.err[1]))
Call(method, req) == [method |-> method, req |-> req]
ErrOutcomes == {[err |-> <<e>>, resp |-> <<>>] : e \in ErrStrings}
OkOutcomes(resps) == {[err |-> <<>>, resp |-> <<r>>] : r \in resps}

\* What a handler leaves behind: the client calls it made, resp.Diagnostics, resp.State.
Result(calls, diags, st) == [calls |-> calls, diags |-> diags, State |-> st]

-----------------------------------------------------------------------------
(* unifi_network (internal/provider/network_resource.go).                  *)

Mut_NetworkPlanVlanZero(config, prior) ==
    [site_id |-> config.site_id,
     id |-> UseStateForUnknown(prior, "id"),
     name |-> config.name,
     enabled |-> Default(config.enabled, BoolValue(TRUE)),
     vlan_id |-> Default(config.vlan_id, Int64Value(0)),
     management |-> Default(config.management, StringValue("third-party")),
     isolation_enabled |-> Default(config.isolation_enabled, BoolValue(FALSE)),
     internet_access_enabled |-> Default(config.internet_access_enabled, BoolValue(TRUE)),
     mdns_forwarding_enabled |-> Default(config.mdns_forwarding_enabled, BoolValue(FALSE))]

\* NetworkResource.Schema: the plan the framework derives from a configuration.
NetworkPlan(config, prior) ==
    [site_id |-> config.site_id,
     id |-> UseStateForUnknown(prior, "id"),
     name |-> config.name,
     enabled |-> Default(config.enabled, BoolValue(TRUE)),
     vlan_id |-> Default(config.vlan_id, Int64Value(1)),
     management |-> Default(config.management, StringValue("third-party")),
     isolation_enabled |-> Default(config.isolation_enabled, BoolValue(FALSE)),
     internet_access_enabled |-> Default(config.internet_access_enabled, BoolValue(TRUE)),
     mdns_forwarding_enabled |-> Default(config.mdns_forwarding_enabled, BoolValue(FALSE))]

\* NetworkResource.Create
NetworkCreate(data, out) ==
    LET createReq == [SiteID |-> ValueString(data.site_id),
                      Name |-> ValueString(data.name),
                      Enabled |-> ValueBool(data.enabled),
                      VlanID |-> ValueInt64(data.vlan_id),
                      Management |-> ValueString(data.management),
                      IsolationEnabled |-> Ptr(ValueBool(data.isolation_enabled)),
                      InternetAccessEnabled |-> Ptr(ValueBool(data.internet_access_enabled)),
                      MdnsForwardingEnabled |-> Ptr(ValueBool(data.mdns_forwarding_enabled))]
        calls == <<Call("CreateNetwork", createReq)>>
    IN  IF Failed(out)
        THEN Result(calls, <<ClientError("Unable to create network: ", out)>>, <<>>)
        ELSE Result(calls, <<>>, <<[data EXCEPT !.id = StringValue(out.resp[1].ID)]>>)

Mut_NetworkReadKeepsState(data, out) ==
    LET calls == <<Call("GetNetworkDetails", [SiteID |-> ValueString(data.site_id),
                                              NetworkID |-> ValueString(data.id)])>>
    IN  IF Failed(out)
        THEN Result(calls, <<ClientError("Unable to read network: ", out)>>, <<data>>)
        ELSE Result(calls, <<>>, <<data>>)

\* NetworkResource.Read
NetworkRead(data, out) ==
    LET calls == <<Call("GetNetworkDetails", [SiteID |-> ValueString(data.site_id),
                                              NetworkID |-> ValueString(data.id)])>>
        networkResp == out.resp[1]
    IN  IF Failed(out)
        THEN Result(calls, <<ClientError("Unable to read network: ", out)>>, <<data>>)
        ELSE Result(calls, <<>>,
               <<[data EXCEPT
                    !.name = StringValue(networkResp.Name),
                    !.enabled = BoolValue(networkResp.Enabled),
                    !.vlan_id = Int64Value(networkResp.VlanID),
                    !.management = StringValue(networkResp.Management),
                    !.isolation_enabled =
                        IF networkResp.IsolationEnabled # NilPtr
                        THEN BoolValue(networkResp.IsolationEnabled[1]) ELSE @,
                    !.internet_access_enabled =
                        IF networkResp.InternetAccessEnabled # NilPtr
                        THEN BoolValue(networkResp.InternetAccessEnabled[1]) ELSE @,
                    !.mdns_forwarding_enabled =
                        IF networkResp.MdnsForwardingEnabled # NilPtr
                        THEN BoolValue(networkResp.MdnsForwardingEnabled[1]) ELSE @]>>)

Mut_NetworkUpdateWritesOnError(data, prior, out) ==
    LET calls == <<Call("UpdateNetwork", [SiteID |-> ValueString(data.site_id),
                                          NetworkID |-> ValueString(data.id)])>>
    IN  IF Failed(out)
        THEN Result(calls, <<ClientError("Unable to update network: ", out)>>, <<data>>)
        ELSE Result(calls, <<>>, <<data>>)

\* NetworkResource.Update
NetworkUpdate(data, prior, out) ==
    LET updateReq == [SiteID |-> ValueString(data.site_id),
                      NetworkID |-> ValueString(data.id),
                      Name |-> ValueString(data.name),
                      Enabled |-> ValueBool(data.enabled),
                      VlanID |-> ValueInt64(data.vlan_id),
                      Management |-> ValueString(data.management),
                      IsolationEnabled |-> Ptr(ValueBool(data.isolation_enabled)),
                      InternetAccessEnabled |-> Ptr(ValueBool(data.internet_access_enabled)),
                      MdnsForwardingEnabled |-> Ptr(ValueBool(data.mdns_forwarding_enabled))]
        calls == <<Call("UpdateNetwork", updateReq)>>
    IN  IF Failed(out)
        THEN Result(calls, <<ClientError("Unable to update network: ", out)>>, <<prior>>)
        ELSE Result(calls, <<>>, <<data>>)

Mut_NetworkDeleteSwallowsError(data, out) ==
    Result(<<Call("DeleteNetwork", [SiteID |-> ValueString(data.site_id),
                                    NetworkID |-> ValueString(data.id)])>>,
           <<>>, <<data>>)

\* NetworkResource.Delete
NetworkDelete(data, out) ==
    LET calls == <<Call("DeleteNetwork", [SiteID |-> ValueString(data.site_id),
                                          NetworkID |-> ValueString(data.id)])>>
    IN  IF Failed(out)
        THEN Result(calls, <<ClientError("Unable to delete network: ", out)>>, <<data>>)
        ELSE Result(calls, <<>>, <<data>>)

-----------------------------------------------------------------------------
(* unifi_wifi_broadcast (WifiBroadcastResource).                           *)

Mut_WifiPlanNoSecurityDefault(config, prior) ==
    [site_id |-> config.site_id,
     id |-> UseStateForUnknown(prior, "id"),
     name |-> config.name,
     type |-> Default(config.type, StringValue("standard")),
     enabled |-> Default(config.enabled, BoolValue(TRUE)),
     network_id |-> config.network_id,
     security_type |-> config.security_type,
     passphrase |-> config.passphrase,
     hide_name |-> Default(config.hide_name, BoolValue(FALSE)),
     client_isolation_enabled |-> Default(config.client_isolation_enabled, BoolValue(FALSE))]

\* WifiBroadcastResource.Schema: the plan the framework derives from a configuration.
WifiPlan(config, prior) ==
    [site_id |-> config.site_id,
     id |-> UseStateForUnknown(prior, "id"),
     name |-> config.name,
     type |-> Default(config.type, StringValue("standard")),
     enabled |-> Default(config.enabled, BoolValue(TRUE)),
     network_id |-> config.network_id,
     security_type |-> Default(config.security_type, StringValue("wpa2")),
     passphrase |-> config.passphrase,
     hide_name |-> Default(config.hide_name, BoolValue(FALSE)),
     client_isolation_enabled |-> Default(config.client_isolation_enabled, BoolValue(FALSE))]

\* The network reference and the security configuration both handlers build.
WifiNetworkReference(data) ==
    IF ~IsNull(data.network_id) /\ ~IsUnknown(data.network_id)
    THEN Ptr([Type |-> "network", NetworkID |-> ValueString(data.network_id)])
    ELSE NilPtr

WifiSecurityConfiguration(data) ==
    IF ~IsNull(data.security_type)
    THEN Ptr([Type |-> ValueString(data.security_type),
              Passphrase |-> IF ~IsNull(data.passphrase) /\ ~IsUnknown(data.passphrase)
                             THEN ValueString(data.passphrase) ELSE ""])
    ELSE NilPtr

\* WifiBroadcastResource.Create
WifiCreate(data, out) ==
    LET createReq == [SiteID |-> ValueString(data.site_id),
                      Name |-> ValueString(data.name),
                      Type |-> ValueString(data.type),
                      Enabled |-> ValueBool(data.enabled),
                      HideName |-> ValueBool(data.hide_name),
                      ClientIsolationEnabled |-> ValueBool(data.client_isolation_enabled),
                      Network |-> WifiNetworkReference(data),
                      SecurityConfiguration |-> WifiSecurityConfiguration(data)]
        calls == <<Call("CreateWifiBroadcast", createReq)>>
    IN  IF Failed(out)
        THEN Result(calls, <<ClientError("Unable to create WiFi broadcast: ", out)>>, <<>>)
        ELSE Result(calls, <<>>, <<[data EXCEPT !.id = StringValue(out.resp[1].ID)]>>)

\* WifiBroadcastResource.Read
WifiRead(data, out) ==
    LET calls == <<Call("GetWifiBroadcastDetails",
                        [SiteID |-> ValueString(data.site_id),
                         WifiBroadcastID |-> ValueString(data.id)])>>
        wifiResp == out.resp[1]
    IN  IF Failed(out)
        THEN Result(calls, <<ClientError("Unable to read WiFi broadcast: ", out)>>, <<data>>)
        ELSE Result(calls, <<>>,
               <<[data EXCEPT
                    !.name = StringValue(wifiResp.Name),
                    !.type = StringValue(wifiResp.Type),
                    !.enabled = BoolValue(wifiResp.Enabled),
                    !.hide_name = BoolValue(wifiResp.HideName),
                    !.client_isolation_enabled = BoolValue(wifiResp.ClientIsolationEnabled),
                    !.network_id =
                        IF wifiResp.Network # NilPtr
                        THEN StringValue(wifiResp.Network[1].NetworkID) ELSE @,
                    !.security_type =
                        IF wifiResp.SecurityConfiguration # NilPtr
                        THEN StringValue(wifiResp.SecurityConfiguration[1].Type) ELSE @]>>)

\* WifiBroadcastResource.Update
WifiUpdate(data, prior, out) ==
    LET updateReq == [SiteID |-> ValueString(data.site_id),
                      WifiBroadcastID |-> ValueString(data.id),
                      Name |-> ValueString(data.name),
                      Type |-> ValueString(data.type),
                      Enabled |-> ValueBool(data.enabled),
                      HideName |-> ValueBool(data.hide_name),
                      ClientIsolationEnabled |-> ValueBool(data.client_isolation_enabled),
                      Network |-> WifiNetworkReference(data),
                      SecurityConfiguration |-> WifiSecurityConfiguration(data)]
        calls == <<Call("UpdateWifiBroadcast", updateReq)>>
    IN  IF Failed(out)
        THEN Result(calls, <<ClientError("Unable to update WiFi broadcast: ", out)>>, <<prior>>)
        ELSE Result(calls, <<>>, <<data>>)

\* WifiBroadcastResource.Delete
WifiDelete(data, out) ==
    LET calls == <<Call("DeleteWifiBroadcast",
                        [SiteID |-> ValueString(data.site_id),
                         WifiBroadcastID |-> ValueString(data.id)])>>
    IN  IF Failed(out)
        THEN Result(calls, <<ClientError("Unable to delete WiFi broadcast: ", out)>>, <<data>>)
        ELSE Result(calls, <<>>, <<data>>)

-----------------------------------------------------------------------------
(* unifi_firewall_zone (internal/provider/firewall_zone_resource.go).      *)

\* A Go slice: nil, or a (possibly empty) sequence of elements.
NilSlice == [nil |-> TRUE, elems |-> <<>>]
Slice(elems) == [nil |-> FALSE, elems |-> elems]

\* types.List.ElementsAs(ctx, &[]string, false): a null or unknown element is an error.
ElementsAs(list) ==
    IF \E i \in 1..Len(list.value) : list.value[i].state # "known"
    THEN [diags |-> <<ErrorDiag("Value Conversion Error", "unhandled null values")>>,
          target |-> NilSlice]
    ELSE [diags |-> <<>>,
          target |-> Slice([i \in 1..Len(list.value) |-> list.value[i].value])]

\* types.ListValueFrom(ctx, types.StringType, []string): a nil slice is the null list.
ListValueFrom(slice) ==
    IF slice.nil THEN ListNull
    ELSE ListValue([i \in 1..Len(slice.elems) |-> StringValue(slice.elems[i])])

\* FirewallZoneResource.Schema: the plan the framework derives from a configuration.
ZonePlan(config, prior) ==
    [site_id |-> config.site_id,
     id |-> UseStateForUnknown(prior, "id"),
     name |-> config.name,
     network_ids |-> config.network_ids]

\* The conversion of network_ids both handlers start with.
ZoneNetworkIDs(data) ==
    IF ~IsNull(data.network_ids) THEN ElementsAs(data.network_ids)
    ELSE [diags |-> <<>>, target |-> NilSlice]

\* FirewallZoneResource.Create
ZoneCreate(data, out) ==
    LET networkIDs == ZoneNetworkIDs(data)
        createReq == [SiteID |-> ValueString(data.site_id),
                      Name |-> ValueString(data.name),
                      NetworkIDs |-> networkIDs.target]
        calls == <<Call("CreateFirewallZone", createReq)>>
    IN  IF HasError(networkIDs.diags) THEN Result(<<>>, networkIDs.diags, <<>>)
        ELSE IF Failed(out)
        THEN Result(calls, <<ClientError("Unable to create firewall zone: ", out)>>, <<>>)
        ELSE Result(calls, <<>>, <<[data EXCEPT !.id = StringValue(out.resp[1].ID)]>>)

\* FirewallZoneResource.Read
ZoneRead(data, out) ==
    LET calls == <<Call("GetFirewallZone", [SiteID |-> ValueString(data.site_id),
                                            ZoneID |-> ValueString(data.id)])>>
        result == out.resp[1]
    IN  IF Failed(out)
        THEN Result(calls, <<ClientError("Unable to read firewall zone: ", out)>>, <<data>>)
        ELSE Result(calls, <<>>,
               <<[data EXCEPT !.name = StringValue(result.Name),
                              !.network_ids = ListValueFrom(result.NetworkIDs)]>>)

Mut_ZoneUpdateRetries(data, prior, out) ==
    LET networkIDs == ZoneNetworkIDs(data)
        updateReq == [SiteID |-> ValueString(data.site_id),
                      ZoneID |-> ValueString(data.id),
                      Name |-> ValueString(data.name),
                      NetworkIDs |-> networkIDs.target]
        call == Call("UpdateFirewallZone", updateReq)
    IN  IF HasError(networkIDs.diags) THEN Result(<<>>, networkIDs.diags, <<prior>>)
        ELSE IF Failed(out)
        THEN Result(<<call, call>>,
                    <<ClientError("Unable to update firewall zone: ", out)>>, <<prior>>)
        ELSE Result(<<call>>, <<>>, <<data>>)

\* FirewallZoneResource.Update
ZoneUpdate(data, prior, out) ==
    LET networkIDs == ZoneNetworkIDs(data)
        updateReq == [SiteID |-> ValueString(data.site_id),
                      ZoneID |-> ValueString(data.id),
                      Name |-> ValueString(data.name),
                      NetworkIDs |-> networkIDs.target]
        calls == <<Call("UpdateFirewallZone", updateReq)>>
    IN  IF HasError(networkIDs.diags) THEN Result(<<>>, networkIDs.diags, <<prior>>)
        ELSE IF Failed(out)
        THEN Result(calls, <<ClientError("Unable to update firewall zone: ", out)>>, <<prior>>)
        ELSE Result(calls, <<>>, <<data>>)

\* FirewallZoneResource.Delete
ZoneDelete(data, out) ==
    LET calls == <<Call("DeleteFirewallZone", [SiteID |-> ValueString(data.site_id),
                                               ZoneID |-> ValueString(data.id)])>>
    IN  IF Failed(out)
        THEN Result(calls, <<ClientError("Unable to delete firewall zone: ", out)>>, <<data>>)
        ELSE Result(calls, <<>>, <<data>>)

-----------------------------------------------------------------------------
(* unifi_acl_rule (internal/provider/acl_rule_resource.go).                *)

\* ACLRuleResource.Schema: the plan the framework derives from a configuration.
ACLPlan(config, prior) ==
    [site_id |-> config.site_id,
     id |-> UseStateForUnknown(prior, "id"),
     type |-> Default(config.type, StringValue("wired")),
     name |-> config.name,
     description |-> config.description,
     enabled |-> Default(config.enabled, BoolValue(TRUE)),
     action |-> Default(config.action, StringValue("allow"))]

\* ACLRuleResource.Create
ACLCreate(data, out) ==
    LET createReq == [SiteID |-> ValueString(data.site_id),
                      Type |-> ValueString(data.type),
                      Name |-> ValueString(data.name),
                      Description |-> ValueString(data.description),
                      Enabled |-> ValueBool(data.enabled),
                      Action |-> ValueString(data.action)]
        calls == <<Call("CreateACLRule", createReq)>>
    IN  IF Failed(out)
        THEN Result(calls, <<ClientError("Unable to create ACL rule: ", out)>>, <<>>)
        ELSE Result(calls, <<>>, <<[data EXCEPT !.id = StringValue(out.resp[1].ID)]>>)

\* ACLRuleResource.Read
ACLRead(data, out) ==
    LET calls == <<Call("GetACLRule", [SiteID |-> ValueString(data.site_id),
                                       RuleID |-> ValueString(data.id)])>>
        result == out.resp[1]
    IN  IF Failed(out)
        THEN Result(calls, <<ClientError("Unable to read ACL rule: ", out)>>, <<data>>)
        ELSE Result(calls, <<>>,
               <<[data EXCEPT !.type = StringValue(result.Type),
                              !.name = StringValue(result.Name),
                              !.description = StringValue(result.Description),
                              !.enabled = BoolValue(result.Enabled),
                              !.action = StringValue(result.Action)]>>)

\* ACLRuleResource.Update
ACLUpdate(data, prior, out) ==
    LET updateReq == [SiteID |-> ValueString(data.site_id),
                      RuleID |-> ValueString(data.id),
                      Type |-> ValueString(data.type),
                      Name |-> ValueString(data.name),
                      Description |-> ValueString(data.description),
                      Enabled |-> ValueBool(data.enabled),
                      Action |-> ValueString(data.action)]
        calls == <<Call("UpdateACLRule", updateReq)>>
    IN  IF Failed(out)
        THEN Result(calls, <<ClientError("Unable to update ACL rule: ", out)>>, <<prior>>)
        ELSE Result(calls, <<>>, <<data>>)

\* ACLRuleResource.Delete
ACLDelete(data, out) ==
    LET calls == <<Call("DeleteACLRule", [SiteID |-> ValueString(data.site_id),
                                          RuleID |-> ValueString(data.id)])>>
    IN  IF Failed(out)
        THEN Result(calls, <<ClientError("Unable to delete ACL rule: ", out)>>, <<data>>)
        ELSE Result(calls, <<>>, <<data>>)

-----------------------------------------------------------------------------
(* unifi_traffic_matching_list (traffic_matching_list_resource.go).        *)

ListTypes == {"ports", "ipv4_addresses"}

\* TrafficMatchingListResource.Schema: the plan the framework derives from a configuration.
TMLPlan(config, prior) ==
    [site_id |-> config.site_id,
     id |-> UseStateForUnknown(prior, "id"),
     name |-> config.name,
     type |-> config.type]

\* TrafficMatchingListResource.Create
TMLCreate(data, out) ==
    LET createReq == [SiteID |-> ValueString(data.site_id),
                      Name |-> ValueString(data.name),
                      Type |-> ValueString(data.type)]
        calls == <<Call("CreateTrafficMatchingList", createReq)>>
    IN  IF Failed(out)
        THEN Result(calls, <<ClientError("Unable to create traffic matching list: ", out)>>, <<>>)
        ELSE Result(calls, <<>>, <<[data EXCEPT !.id = StringValue(out.resp[1].ID)]>>)

\* TrafficMatchingListResource.Read
TMLRead(data, out) ==
    LET calls == <<Call("GetTrafficMatchingList", [SiteID |-> ValueString(data.site_id),
                                                   ListID |-> ValueString(data.id)])>>
        result == out.resp[1]
    IN  IF Failed(out)
        THEN Result(calls, <<ClientError("Unable to read traffic matching list: ", out)>>,
                    <<data>>)
        ELSE Result(calls, <<>>,
               <<[data EXCEPT !.name = StringValue(result.Name),
                              !.type = StringValue(result.Type)]>>)

\* TrafficMatchingListResource.Update
TMLUpdate(data, prior, out) ==
    LET updateReq == [SiteID |-> ValueString(data.site_id),
                      ListID |-> ValueString(data.id),
                      Name |-> ValueString(data.name),
                      Type |-> ValueString(data.type)]
        calls == <<Call("UpdateTrafficMatchingList", updateReq)>>
    IN  IF Failed(out)
        THEN Result(calls, <<ClientError("Unable to update traffic matching list: ", out)>>,
                    <<prior>>)
        ELSE Result(calls, <<>>, <<data>>)

\* TrafficMatchingListResource.Delete
TMLDelete(data, out) ==
    LET calls == <<Call("DeleteTrafficMatchingList", [SiteID |-> ValueString(data.site_id),
                                                      ListID |-> ValueString(data.id)])>>
    IN  IF Failed(out)
        THEN Result(calls, <<ClientError("Unable to delete traffic matching list: ", out)>>,
                    <<data>>)
        ELSE Result(calls, <<>>, <<data>>)

-----------------------------------------------------------------------------
(* unifi_dns_policy (DNSPolicyResource).                                   *)

\* DNSPolicyResource.Schema: the plan the framework derives from a configuration.
DNSPlan(config, prior) ==
    [site_id |-> config.site_id,
     id |-> UseStateForUnknown(prior, "id"),
     type |-> config.type,
     enabled |-> Default(config.enabled, BoolValue(TRUE)),
     domain |-> config.domain,
     ipv4_address |-> config.ipv4_address,
     ipv6_address |-> config.ipv6_address,
     ttl_seconds |-> config.ttl_seconds]

\* DNSPolicyResource.Create
DNSCreate(data, out) ==
    LET createReq == [SiteID |-> ValueString(data.site_id),
                      Type |-> ValueString(data.type),
                      Enabled |-> ValueBool(data.enabled),
                      Domain |-> ValueString(data.domain),
                      IPv4Address |-> ValueString(data.ipv4_address),
                      IPv6Address |-> ValueString(data.ipv6_address),
                      TTLSeconds |-> IF ~IsNull(data.ttl_seconds)
                                     THEN Ptr(ValueInt64(data.ttl_seconds)) ELSE NilPtr]
        calls == <<Call("CreateDNSPolicy", createReq)>>
    IN  IF Failed(out)
        THEN Result(calls, <<ClientError("Unable to create DNS policy: ", out)>>, <<>>)
        ELSE Result(calls, <<>>, <<[data EXCEPT !.id = StringValue(out.resp[1].ID)]>>)

\* DNSPolicyResource.Read
DNSRead(data, out) ==
    LET calls == <<Call("GetDNSPolicy", [SiteID |-> ValueString(data.site_id),
                                         PolicyID |-> ValueString(data.id)])>>
        result == out.resp[1]
    IN  IF Failed(out)
        THEN Result(calls, <<ClientError("Unable to read DNS policy: ", out)>>, <<data>>)
        ELSE Result(calls, <<>>,
               <<[data EXCEPT !.type = StringValue(result.Type),
                              !.enabled = BoolValue(result.Enabled),
                              !.domain = StringValue(result.Domain),
                              !.ipv4_address = StringValue(result.IPv4Address),
                              !.ipv6_address = StringValue(result.IPv6Address),
                              !.ttl_seconds = IF result.TTLSeconds # NilPtr
                                              THEN Int64Value(result.TTLSeconds[1]) ELSE @]>>)

\* DNSPolicyResource.Update
DNSUpdate(data, prior, out) ==
    LET updateReq == [SiteID |-> ValueString(data.site_id),
                      PolicyID |-> ValueString(data.id),
                      Type |-> ValueString(data.type),
                      Enabled |-> ValueBool(data.enabled),
                      Domain |-> ValueString(data.domain),
                      IPv4Address |-> ValueString(data.ipv4_address),
                      IPv6Address |-> ValueString(data.ipv6_address),
                      TTLSeconds |-> IF ~IsNull(data.ttl_seconds)
                                     THEN Ptr(ValueInt64(data.ttl_seconds)) ELSE NilPtr]
        calls == <<Call("UpdateDNSPolicy", updateReq)>>
    IN  IF Failed(out)
        THEN Result(calls, <<ClientError("Unable to update DNS policy: ", out)>>, <<prior>>)
        ELSE Result(calls, <<>>, <<data>>)

\* DNSPolicyResource.Delete
DNSDelete(data, out) ==
    LET calls == <<Call("DeleteDNSPolicy", [SiteID |-> ValueString(data.site_id),
                                            PolicyID |-> ValueString(data.id)])>>
    IN  IF Failed(out)
        THEN Result(calls, <<ClientError("Unable to delete DNS policy: ", out)>>, <<data>>)
        ELSE Result(calls, <<>>, <<data>>)

-----------------------------------------------------------------------------
(* unifi_firewall_policy (internal/provider/firewall_policy_resource.go).  *)

Zones == {"zone-1", "zone-2"}

\* FirewallPolicyResource.Schema: the plan the framework derives from a configuration.
PolicyPlan(config, prior) ==
    [site_id |-> config.site_id,
     id |-> UseStateForUnknown(prior, "id"),
     name |-> config.name,
     description |-> config.description,
     enabled |-> Default(config.enabled, BoolValue(TRUE)),
     action_type |-> Default(config.action_type, StringValue("allow")),
     source_zone_id |-> config.source_zone_id,
     destination_zone_id |-> config.destination_zone_id,
     logging_enabled |-> Default(config.logging_enabled, BoolValue(FALSE))]

\* FirewallPolicyResource.Create
PolicyCreate(data, out) ==
    LET createReq == [SiteID |-> ValueString(data.site_id),
                      Name |-> ValueString(data.name),
                      Description |-> ValueString(data.description),
                      Enabled |-> ValueBool(data.enabled),
                      LoggingEnabled |-> ValueBool(data.logging_enabled),
                      Action |-> Ptr([Type |-> ValueString(data.action_type)]),
                      Source |-> Ptr([ZoneID |-> ValueString(data.source_zone_id)]),
                      Destination |-> Ptr([ZoneID |-> ValueString(data.destination_zone_id)]),
                      IPProtocolScope |-> Ptr([IPVersion |-> "ipv4"])]
        calls == <<Call("CreateFirewallPolicy", createReq)>>
    IN  IF Failed(out)
        THEN Result(calls, <<ClientError("Unable to create firewall policy: ", out)>>, <<>>)
        ELSE Result(calls, <<>>, <<[data EXCEPT !.id = StringValue(out.resp[1].ID)]>>)

\* FirewallPolicyResource.Read
PolicyRead(data, out) ==
    LET calls == <<Call("GetFirewallPolicy", [SiteID |-> ValueString(data.site_id),
                                              PolicyID |-> ValueString(data.id)])>>
        result == out.resp[1]
    IN  IF Failed(out)
        THEN Result(calls, <<ClientError("Unable to read firewall policy: ", out)>>, <<data>>)
        ELSE Result(calls, <<>>,
               <<[data EXCEPT
                    !.name = StringValue(result.Name),
                    !.description = StringValue(result.Description),
                    !.enabled = BoolValue(result.Enabled),
                    !.logging_enabled = BoolValue(result.LoggingEnabled),
                    !.action_type = IF result.Action # NilPtr
                                    THEN StringValue(result.Action[1].Type) ELSE @,
                    !.source_zone_id = IF result.Source # NilPtr
                                       THEN StringValue(result.Source[1].ZoneID) ELSE @,
                    !.destination_zone_id = IF result.Destination # NilPtr
                                            THEN StringValue(result.Destination[1].ZoneID)
                                            ELSE @]>>)

\* FirewallPolicyResource.Update
PolicyUpdate(data, prior, out) ==
    LET updateReq == [SiteID |-> ValueString(data.site_id),
                      PolicyID |-> ValueString(data.id),
                      Name |-> ValueString(data.name),
                      Description |-> ValueString(data.description),
                      Enabled |-> ValueBool(data.enabled),
                      LoggingEnabled |-> ValueBool(data.logging_enabled),
                      Action |-> Ptr([Type |-> ValueString(data.action_type)]),
                      Source |-> Ptr([ZoneID |-> ValueString(data.source_zone_id)]),
                      Destination |-> Ptr([ZoneID |-> ValueString(data.destination_zone_id)]),
                      IPProtocolScope |-> Ptr([IPVersion |-> "ipv4"])]
        calls == <<Call("UpdateFirewallPolicy", updateReq)>>
    IN  IF Failed(out)
        THEN Result(calls, <<ClientError("Unable to update firewall policy: ", out)>>, <<prior>>)
        ELSE Result(calls, <<>>, <<data>>)

\* FirewallPolicyResource.Delete
PolicyDelete(data, out) ==
    LET calls == <<Call("DeleteFirewallPolicy", [SiteID |-> ValueString(data.site_id),
                                                 PolicyID |-> ValueString(data.id)])>>
    IN  IF Failed(out)
        THEN Result(calls, <<ClientError("Unable to delete firewall policy: ", out)>>, <<data>>)
        ELSE Result(calls, <<>>, <<data>>)

-----------------------------------------------------------------------------
(* unifi_firewall_policy with nested objects (unnamed/part_003, the second *)
(* FirewallPolicyResource): action, source, destination, ip_protocol_scope *)
(* and schedule are types.Object values.                                   *)

\* types.Object: the attribute values of a known object, none for a null one.
ObjectValue(attrs) == [state |-> "known", value |-> attrs]
ObjectNull == [state |-> "null", value |-> <<>>]

\* FirewallPolicyResource.Schema: the plan the framework derives from a configuration.
Policy2Plan(config, prior) ==
    [config EXCEPT !.enabled = Default(@, BoolValue(TRUE)),
                   !.ipsec_filter = Default(@, StringValue("any")),
                   !.logging_enabled = Default(@, BoolValue(FALSE))]
    @@ [id |-> UseStateForUnknown(prior, "id")]

\* FirewallPolicyResource.buildAction; the objects of a plan always decode (As adds
\* no diagnostic), so the only errors in diags are earlier ones.
buildAction(actionObj, diags) ==
    LET action == actionObj.value
    IN  IF HasError(diags) THEN NilPtr
        ELSE Ptr([Type |-> ValueString(action.type),
                  AllowReturnTraffic |->
                      IF ~IsNull(action.allow_return_traffic)
                      THEN Ptr(ValueBool(action.allow_return_traffic)) ELSE NilPtr])

\* FirewallPolicyResource.buildEndpoint: the traffic filter is decoded and left behind.
buildEndpoint(endpointObj, diags) ==
    LET endpoint == endpointObj.value
    IN  IF HasError(diags) THEN NilPtr
        ELSE Ptr([ZoneID |-> ValueString(endpoint.zone_id), TrafficFilter |-> NilPtr])

\* FirewallPolicyResource.buildIPProtocolScope
buildIPProtocolScope(scopeObj, diags) ==
    LET scope == scopeObj.value
        pf == scope.protocol_filter.value
    IN  IF HasError(diags) THEN NilPtr
        ELSE Ptr([IPVersion |-> ValueString(scope.ip_version),
                  ProtocolFilter |->
                      IF ~IsNull(scope.protocol_filter) /\ ~IsUnknown(scope.protocol_filter)
                      THEN Ptr([Type |-> ValueString(pf.type),
                                Protocol |-> IF ~IsNull(pf.protocol_name)
                                             THEN Ptr([Name |-> ValueString(pf.protocol_name)])
                                             ELSE NilPtr,
                                ProtocolNumber |-> IF ~IsNull(pf.protocol_number)
                                                   THEN Ptr(ValueInt64(pf.protocol_number))
                                                   ELSE NilPtr,
                                Preset |-> IF ~IsNull(pf.preset_name)
                                           THEN Ptr([Name |-> ValueString(pf.preset_name)])
                                           ELSE NilPtr,
                                MatchOpposite |-> IF ~IsNull(pf.match_opposite)
                                                  THEN Ptr(ValueBool(pf.match_opposite))
                                                  ELSE NilPtr])
                      ELSE NilPtr])

\* FirewallPolicyResource.buildSchedule: the schedule and the diagnostics after it.
buildSchedule(scheduleObj, diags) ==
    LET schedule == scheduleObj.value
        days == IF ~IsNull(schedule.repeat_on_days) THEN ElementsAs(schedule.repeat_on_days)
                ELSE [diags |-> <<>>, target |-> NilSlice]
    IN  IF HasError(diags) THEN [ptr |-> NilPtr, diags |-> diags]
        ELSE [ptr |-> Ptr([Mode |-> ValueString(schedule.mode),
                           StartDate |-> ValueString(schedule.start_date),
                           StopDate |-> ValueString(schedule.stop_date),
                           RepeatOnDays |-> days.target,
                           TimeFilter |->
                               IF ~IsNull(schedule.start_time) \/ ~IsNull(schedule.stop_time)
                               THEN Ptr([StartTime |-> ValueString(schedule.start_time),
                                         StopTime |-> ValueString(schedule.stop_time)])
                               ELSE NilPtr]),
              diags |-> diags \o days.diags]

\* FirewallPolicyResource.buildCreateRequest: the request and the diagnostics of
\* the conversion.
buildCreateRequest(data) ==
    LET states == IF ~IsNull(data.connection_state_filter)
                  THEN ElementsAs(data.connection_state_filter)
                  ELSE [diags |-> <<>>, target |-> NilSlice]
        schedule == IF ~IsNull(data.schedule) THEN buildSchedule(data.schedule, states.diags)
                    ELSE [ptr |-> NilPtr, diags |-> states.diags]
    IN  [req |-> [SiteID |-> ValueString(data.site_id),
                  Name |-> ValueString(data.name),
                  Description |-> ValueString(data.description),
                  Enabled |-> ValueBool(data.enabled),
                  LoggingEnabled |-> ValueBool(data.logging_enabled),
                  IpsecFilter |-> ValueString(data.ipsec_filter),
                  Action |-> IF ~IsNull(data.action) THEN buildAction(data.action, <<>>)
                             ELSE NilPtr,
                  Source |-> IF ~IsNull(data.source) THEN buildEndpoint(data.source, <<>>)
                             ELSE NilPtr,
                  Destination |-> IF ~IsNull(data.destination)
                                  THEN buildEndpoint(data.destination, <<>>) ELSE NilPtr,
                  IPProtocolScope |-> IF ~IsNull(data.ip_protocol_scope)
                                      THEN buildIPProtocolScope(data.ip_protocol_scope, <<>>)
                                      ELSE NilPtr,
                  ConnectionStateFilter |-> states.target,
                  Schedule |-> schedule.ptr],
         diags |-> schedule.diags]

\* FirewallPolicyResource.buildUpdateRequest: the same conversion, with the PolicyID.
buildUpdateRequest(data) ==
    LET built == buildCreateRequest(data)
    IN  [req |-> built.req @@ [PolicyID |-> ValueString(data.id)], diags |-> built.diags]

\* FirewallPolicyResource.mapEndpointToObject: traffic_filter is always the null object.
mapEndpointToObject(endpoint) ==
    ObjectValue([zone_id |-> StringValue(endpoint.ZoneID), traffic_filter |-> ObjectNull])

\* FirewallPolicyResource.mapResponseToModel, with mapIPProtocolScopeToObject and
\* mapScheduleToObject.
mapResponseToModel(resp, data) ==
    LET mapIPProtocolScopeToObject(scope) ==
            LET pf == scope.ProtocolFilter[1]
            IN  ObjectValue(
                  [ip_version |-> StringValue(scope.IPVersion),
                   protocol_filter |->
                       IF scope.ProtocolFilter # NilPtr
                       THEN ObjectValue(
                              [type |-> StringValue(pf.Type),
                               protocol_name |-> IF pf.Protocol # NilPtr
                                                 THEN StringValue(pf.Protocol[1].Name)
                                                 ELSE StringNull,
                               protocol_number |-> IF pf.ProtocolNumber # NilPtr
                                                   THEN Int64Value(pf.ProtocolNumber[1])
                                                   ELSE Int64Null,
                               preset_name |-> IF pf.Preset # NilPtr
                                               THEN StringValue(pf.Preset[1].Name)
                                               ELSE StringNull,
                               match_opposite |-> IF pf.MatchOpposite # NilPtr
                                                  THEN BoolValue(pf.MatchOpposite[1])
                                                  ELSE BoolNull])
                       ELSE ObjectNull])
        mapScheduleToObject(schedule) ==
            ObjectValue(
              [mode |-> StringValue(schedule.Mode),
               start_date |-> StringValue(schedule.StartDate),
               stop_date |-> StringValue(schedule.StopDate),
               repeat_on_days |-> IF Len(schedule.RepeatOnDays.elems) > 0
                                  THEN ListValueFrom(schedule.RepeatOnDays) ELSE ListNull,
               start_time |-> IF schedule.TimeFilter # NilPtr
                              THEN StringValue(schedule.TimeFilter[1].StartTime)
                              ELSE StringNull,
               stop_time |-> IF schedule.TimeFilter # NilPtr
                             THEN StringValue(schedule.TimeFilter[1].StopTime)
                             ELSE StringNull])
    IN  [data EXCEPT
           !.name = StringValue(resp.Name),
           !.description = StringValue(resp.Description),
           !.enabled = BoolValue(resp.Enabled),
           !.logging_enabled = BoolValue(resp.LoggingEnabled),
           !.ipsec_filter = StringValue(resp.IpsecFilter),
           !.action = IF resp.Action # NilPtr
                      THEN ObjectValue(
                             [type |-> StringValue(resp.Action[1].Type),
                              allow_return_traffic |->
                                  IF resp.Action[1].AllowReturnTraffic # NilPtr
                                  THEN BoolValue(resp.Action[1].AllowReturnTraffic[1])
                                  ELSE BoolNull])
                      ELSE @,
           !.source = IF resp.Source # NilPtr THEN mapEndpointToObject(resp.Source[1]) ELSE @,
           !.destination = IF resp.Destination # NilPtr
                           THEN mapEndpointToObject(resp.Destination[1]) ELSE @,
           !.ip_protocol_scope = IF resp.IPProtocolScope # NilPtr
                                 THEN mapIPProtocolScopeToObject(resp.IPProtocolScope[1])
                                 ELSE @,
           !.connection_state_filter = IF Len(resp.ConnectionStateFilter.elems) > 0
                                       THEN ListValueFrom(resp.ConnectionStateFilter) ELSE @,
           !.schedule = IF resp.Schedule # NilPtr THEN mapScheduleToObject(resp.Schedule[1])
                        ELSE @]

\* FirewallPolicyResource.Create
Policy2Create(data, out) ==
    LET built == buildCreateRequest(data)
        calls == <<Call("CreateFirewallPolicy", built.req)>>
    IN  IF HasError(built.diags) THEN Result(<<>>, built.diags, <<>>)
        ELSE IF Failed(out)
        THEN Result(calls, <<ClientError("Unable to create firewall policy: ", out)>>, <<>>)
        ELSE Result(calls, <<>>, <<[data EXCEPT !.id = StringValue(out.resp[1].ID)]>>)

\* FirewallPolicyResource.Read
Policy2Read(data, out) ==
    LET calls == <<Call("GetFirewallPolicy", [SiteID |-> ValueString(data.site_id),
                                              PolicyID |-> ValueString(data.id)])>>
    IN  IF Failed(out)
        THEN Result(calls, <<ClientError("Unable to read firewall policy: ", out)>>, <<data>>)
        ELSE Result(calls, <<>>, <<mapResponseToModel(out.resp[1], data)>>)

\* FirewallPolicyResource.Update
Policy2Update(data, prior, out) ==
    LET built == buildUpdateRequest(data)
        calls == <<Call("UpdateFirewallPolicy", built.req)>>
    IN  IF HasError(built.diags) THEN Result(<<>>, built.diags, <<prior>>)
        ELSE IF Failed(out)
        THEN Result(calls, <<ClientError("Unable to update firewall policy: ", out)>>, <<prior>>)
        ELSE Result(calls, <<>>, <<data>>)

\* FirewallPolicyResource.Delete
Policy2Delete(data, out) ==
    LET calls == <<Call("DeleteFirewallPolicy", [SiteID |-> ValueString(data.site_id),
                                                 PolicyID |-> ValueString(data.id)])>>
    IN  IF Failed(out)
        THEN Result(calls, <<ClientError("Unable to delete firewall policy: ", out)>>, <<data>>)
        ELSE Result(calls, <<>>, <<data>>)

-----------------------------------------------------------------------------
(* unifi_voucher (internal/provider/voucher_resource.go).                  *)

\* The length of the voucher list in a GenerateVouchers response is at most this.
MaxVouchers == 2

Codes == {"code-1", "code-2"}

\* Sequences over S of length at most n.
SeqUpTo(S, n) == UNION {[1..m -> S] : m \in 0..n}

\* One generated voucher, and the GenerateVouchers response carrying a list of them.
Vouchers == {[ID |-> "id-1", Code |-> "code-1"], [ID |-> "id-2", Code |-> "code-2"]}
GenerateVouchersResponses == [Vouchers : SeqUpTo(Vouchers, MaxVouchers)]

\* VoucherResource.Schema: the plan the framework derives from a configuration.
VoucherPlan(config, prior) ==
    [site_id |-> config.site_id,
     id |-> UseStateForUnknown(prior, "id"),
     name |-> config.name,
     code |-> StringUnknown,
     time_limit_minutes |-> Default(config.time_limit_minutes, Int64Value(60)),
     count |-> Default(config.count, Int64Value(1))]

Mut_VoucherCreateLast(data, out) ==
    LET createReq == [SiteID |-> ValueString(data.site_id),
                      Name |-> ValueString(data.name),
                      TimeLimitMinutes |-> ValueInt64(data.time_limit_minutes),
                      Count |-> Ptr(ValueInt64(data.count))]
        calls == <<Call("GenerateVouchers", createReq)>>
        result == out.resp[1]
    IN  IF Failed(out)
        THEN Result(calls, <<ClientError("Unable to create voucher: ", out)>>, <<>>)
        ELSE Result(calls, <<>>,
               <<IF Len(result.Vouchers) > 0
                 THEN [data EXCEPT
                         !.id = StringValue(result.Vouchers[Len(result.Vouchers)].ID),
                         !.code = StringValue(result.Vouchers[Len(result.Vouchers)].Code)]
                 ELSE data>>)

\* VoucherResource.Create
VoucherCreate(data, out) ==
    LET createReq == [SiteID |-> ValueString(data.site_id),
                      Name |-> ValueString(data.name),
                      TimeLimitMinutes |-> ValueInt64(data.time_limit_minutes),
                      Count |-> Ptr(ValueInt64(data.count))]
        calls == <<Call("GenerateVouchers", createReq)>>
        result == out.resp[1]
    IN  IF Failed(out)
        THEN Result(calls, <<ClientError("Unable to create voucher: ", out)>>, <<>>)
        ELSE Result(calls, <<>>,
               <<IF Len(result.Vouchers) > 0
                 THEN [data EXCEPT !.id = StringValue(result.Vouchers[1].ID),
                                   !.code = StringValue(result.Vouchers[1].Code)]
                 ELSE data>>)

\* VoucherResource.Read
VoucherRead(data, out) ==
    LET calls == <<Call("GetVoucherDetails", [SiteID |-> ValueString(data.site_id),
                                              VoucherID |-> ValueString(data.id)])>>
        result == out.resp[1]
    IN  IF Failed(out)
        THEN Result(calls, <<ClientError("Unable to read voucher: ", out)>>, <<data>>)
        ELSE Result(calls, <<>>,
               <<[data EXCEPT !.name = StringValue(result.Name),
                              !.code = StringValue(result.Code),
                              !.time_limit_minutes = Int64Value(result.TimeLimitMinutes)]>>)

Mut_VoucherUpdateRegenerates(data, prior, out) ==
    Result(<<Call("GenerateVouchers", [SiteID |-> ValueString(data.site_id)])>>,
           <<>>, <<data>>)

\* VoucherResource.Update
VoucherUpdate(data, prior, out) ==
    Result(<<>>,
           <<ErrorDiag("Update Not Supported",
                       "Vouchers cannot be updated. Delete and recreate instead.")>>,
           <<prior>>)

\* VoucherResource.Delete
VoucherDelete(data, out) ==
    LET calls == <<Call("DeleteVoucher", [SiteID |-> ValueString(data.site_id),
                                          VoucherID |-> ValueString(data.id)])>>
    IN  IF Failed(out)
        THEN Result(calls, <<ClientError("Unable to delete voucher: ", out)>>, <<data>>)
        ELSE Result(calls, <<>>, <<data>>)

-----------------------------------------------------------------------------
(* unifi_voucher with guest and rate limits (the second VoucherResource).  *)

\* VoucherResource.Schema (second version).
Voucher2Plan(config, prior) ==
    [site_id |-> config.site_id,
     id |-> UseStateForUnknown(prior, "id"),
     name |-> config.name,
     code |-> StringUnknown,
     time_limit_minutes |-> Default(config.time_limit_minutes, Int64Value(60)),
     voucher_count |-> Default(config.voucher_count, Int64Value(1)),
     authorized_guest_limit |-> config.authorized_guest_limit,
     data_usage_limit_mbytes |-> config.data_usage_limit_mbytes,
     rx_rate_limit_kbps |-> config.rx_rate_limit_kbps,
     tx_rate_limit_kbps |-> config.tx_rate_limit_kbps]

Mut_LimitPtrZero(v) == Ptr(ValueInt64(v))

\* An optional limit of the request: set only when the attribute is not null.
LimitPtr(v) == IF ~IsNull(v) THEN Ptr(ValueInt64(v)) ELSE NilPtr

\* VoucherResource.Create (second version)
Voucher2Create(data, out) ==
    LET createReq == [SiteID |-> ValueString(data.site_id),
                      Name |-> ValueString(data.name),
                      TimeLimitMinutes |-> ValueInt64(data.time_limit_minutes),
                      Count |-> Ptr(ValueInt64(data.voucher_count)),
                      AuthorizedGuestLimit |-> LimitPtr(data.authorized_guest_limit),
                      DataUsageLimitMBytes |-> LimitPtr(data.data_usage_limit_mbytes),
                      RxRateLimitKbps |-> LimitPtr(data.rx_rate_limit_kbps),
                      TxRateLimitKbps |-> LimitPtr(data.tx_rate_limit_kbps)]
        calls == <<Call("GenerateVouchers", createReq)>>
        vouchersResp == out.resp[1]
    IN  IF Failed(out)
        THEN Result(calls, <<ClientError("Unable to create voucher: ", out)>>, <<>>)
        ELSE Result(calls, <<>>,
               <<IF Len(vouchersResp.Vouchers) > 0
                 THEN [data EXCEPT !.id = StringValue(vouchersResp.Vouchers[1].ID),
                                   !.code = StringValue(vouchersResp.Vouchers[1].Code)]
                 ELSE data>>)

\* VoucherResource.Read (second version)
Voucher2Read(data, out) ==
    LET calls == <<Call("GetVoucherDetails", [SiteID |-> ValueString(data.site_id),
                                              VoucherID |-> ValueString(data.id)])>>
        voucher == out.resp[1]
    IN  IF Failed(out)
        THEN Result(calls, <<ClientError("Unable to read voucher: ", out)>>, <<data>>)
        ELSE Result(calls, <<>>,
               <<[data EXCEPT
                    !.name = StringValue(voucher.Name),
                    !.code = StringValue(voucher.Code),
                    !.time_limit_minutes = Int64Value(voucher.TimeLimitMinutes),
                    !.authorized_guest_limit =
                        IF voucher.AuthorizedGuestLimit # NilPtr
                        THEN Int64Value(voucher.AuthorizedGuestLimit[1]) ELSE @,
                    !.data_usage_limit_mbytes =
                        IF voucher.DataUsageLimitMBytes # NilPtr
                        THEN Int64Value(voucher.DataUsageLimitMBytes[1]) ELSE @,
                    !.rx_rate_limit_kbps =
                        IF voucher.RxRateLimitKbps # NilPtr
                        THEN Int64Value(voucher.RxRateLimitKbps[1]) ELSE @,
                    !.tx_rate_limit_kbps =
                        IF voucher.TxRateLimitKbps # NilPtr
                        THEN Int64Value(voucher.TxRateLimitKbps[1]) ELSE @]>>)

\* VoucherResource.Update (second version)
Voucher2Update(data, prior, out) ==
    Result(<<>>,
           <<ErrorDiag("Update Not Supported",
                       "Vouchers cannot be updated. Please delete and recreate.")>>,
           <<prior>>)

\* VoucherResource.Delete (second version)
Voucher2Delete(data, out) ==
    LET calls == <<Call("DeleteVoucher", [SiteID |-> ValueString(data.site_id),
                                          VoucherID |-> ValueString(data.id)])>>
    IN  IF Failed(out)
        THEN Result(calls, <<ClientError("Unable to delete voucher: ", out)>>, <<data>>)
        ELSE Result(calls, <<>>, <<data>>)

-----------------------------------------------------------------------------
(* The list data sources: one Read handler each, all of one shape.         *)

\* The length of the list in a List... response is at most this.
MaxItems == 2

\* make([]T, 0, n): an empty slice that is not nil.
Make == Slice(<<>>)

\* append(slice, elems...): appending nothing to a nil slice leaves it nil.
AppendAll(slice, elems) == IF elems = <<>> THEN slice ELSE Slice(slice.elems \o elems)

\* State.Set of a Go slice of models: a nil slice is the null list.
ListFrom(slice) == IF slice.nil THEN ListNull ELSE ListValue(slice.elems)

\* The items the response of each list data source is drawn from.
ListItems(k) ==
    CASE k = "data.networks" ->
            {[ID |-> "id-1", Name |-> "alpha", Enabled |-> TRUE, VlanID |-> 1,
              Management |-> "gateway", Default |-> TRUE],
             [ID |-> "id-2", Name |-> "beta", Enabled |-> FALSE, VlanID |-> 100,
              Management |-> "third-party", Default |-> FALSE]}
      [] k = "data.vouchers" ->
            {[ID |-> "id-1", Name |-> "alpha", Code |-> "code-1", TimeLimitMinutes |-> 60,
              Expired |-> FALSE],
             [ID |-> "id-2", Name |-> "beta", Code |-> "code-2", TimeLimitMinutes |-> 30,
              Expired |-> TRUE]}
      [] k = "data.vpn_servers" ->
            {[ID |-> "id-1", Name |-> "alpha", Type |-> "wireguard", Enabled |-> TRUE],
             [ID |-> "id-2", Name |-> "beta", Type |-> "openvpn", Enabled |-> FALSE]}
      [] k = "data.acl_rules" ->
            {[ID |-> "id-1", Name |-> "alpha", Type |-> "wired", Enabled |-> TRUE,
              Action |-> "allow"],
             [ID |-> "id-2", Name |-> "beta", Type |-> "wireless", Enabled |-> FALSE,
              Action |-> "block"]}
      [] k = "data.firewall_policies" ->
            {[ID |-> "id-1", Name |-> "alpha", Enabled |-> TRUE],
             [ID |-> "id-2", Name |-> "beta", Enabled |-> FALSE]}
      [] k = "data.clients" ->
            {[ID |-> "id-1", Name |-> "alpha", Type |-> "wired", MacAddress |-> "00:00:5e:00:53:01",
              IPAddress |-> "192.0.2.1"],
             [ID |-> "id-2", Name |-> "beta", Type |-> "wireless",
              MacAddress |-> "00:00:5e:00:53:02", IPAddress |-> "192.0.2.2"]}
      [] k = "data.traffic_matching_lists" ->
            {[ID |-> "id-1", Name |-> "alpha", Type |-> "ports"],
             [ID |-> "id-2", Name |-> "beta", Type |-> "ipv4_addresses"]}
      [] k = "data.dns_policies" ->
            {[ID |-> "id-1", Type |-> "A", Enabled |-> TRUE, Domain |-> "host.example"],
             [ID |-> "id-2", Type |-> "CNAME", Enabled |-> FALSE, Domain |-> "remote.example"]}
      [] k = "data.firewall_zones" ->
            {[ID |-> "id-1", Name |-> "alpha"],
             [ID |-> "id-2", Name |-> "beta"]}
      [] k = "data.wan_interfaces" ->
            {[ID |-> "id-1", Name |-> "alpha"],
             [ID |-> "id-2", Name |-> "beta"]}
      [] k = "data.radius_profiles" ->
            {[ID |-> "id-1", Name |-> "alpha"],
             [ID |-> "id-2", Name |-> "beta"]}
      [] k = "data.wifi_broadcasts" ->
            {[ID |-> "id-1", Name |-> "alpha", Type |-> "standard", Enabled |-> TRUE],
             [ID |-> "id-2", Name |-> "beta", Type |-> "iot", Enabled |-> FALSE]}
      [] k = "data.devices" ->
            {[ID |-> "id-1", Name |-> "alpha", MacAddress |-> "00:00:5e:00:53:01",
              IPAddress |-> "192.0.2.1", Model |-> "U6", State |-> "ONLINE",
              FirmwareVersion |-> "6.6.55"],
             [ID |-> "id-2", Name |-> "beta", MacAddress |-> "00:00:5e:00:53:02",
              IPAddress |-> "192.0.2.2", Model |-> "USW", State |-> "OFFLINE",
              FirmwareVersion |-> "7.0.1"]}
      [] k = "data.sites" ->
            {[ID |-> "site-1", Name |-> "alpha", InternalReference |-> "default"],
             [ID |-> "site-2", Name |-> "beta", InternalReference |-> "branch"]}

\* The Data of a list response: nil, or up to MaxItems items.
ListResponses(items) ==
    [Data : {NilSlice} \cup {Slice(q) : q \in SeqUpTo(items, MaxItems)}]

SiteConfigs == [site_id : {StringValue(s) : s \in Sites}]

Mut_NetworksDataSourceReadNilSlice(config, out) ==
    LET calls == <<Call("ListNetworks", [SiteID |-> ValueString(config.site_id)])>>
        Data == out.resp[1].Data.elems
        Summary(n) ==
            [id |-> StringValue(n.ID), name |-> StringValue(n.Name),
             enabled |-> BoolValue(n.Enabled), vlan_id |-> Int64Value(n.VlanID),
             management |-> StringValue(n.Management), default |-> BoolValue(n.Default)]
        networks == AppendAll(NilSlice, [i \in 1..Len(Data) |-> Summary(Data[i])])
    IN  IF Failed(out)
        THEN Result(calls, <<ClientError("Unable to read networks: ", out)>>, <<>>)
        ELSE Result(calls, <<>>, <<[site_id |-> config.site_id, networks |-> ListFrom(networks)]>>)

\* NetworksDataSource.Read
NetworksDataSourceRead(config, out) ==
    LET calls == <<Call("ListNetworks", [SiteID |-> ValueString(config.site_id)])>>
        Data == out.resp[1].Data.elems
        Summary(n) ==
            [id |-> StringValue(n.ID), name |-> StringValue(n.Name),
             enabled |-> BoolValue(n.Enabled), vlan_id |-> Int64Value(n.VlanID),
             management |-> StringValue(n.Management), default |-> BoolValue(n.Default)]
        networks == AppendAll(Make, [i \in 1..Len(Data) |-> Summary(Data[i])])
    IN  IF Failed(out)
        THEN Result(calls, <<ClientError("Unable to read networks: ", out)>>, <<>>)
        ELSE Result(calls, <<>>, <<[site_id |-> config.site_id, networks |-> ListFrom(networks)]>>)

\* VouchersDataSource.Read
VouchersDataSourceRead(config, out) ==
    LET calls == <<Call("ListVouchers", [SiteID |-> ValueString(config.site_id)])>>
        Data == out.resp[1].Data.elems
        Summary(v) ==
            [id |-> StringValue(v.ID), name |-> StringValue(v.Name),
             code |-> StringValue(v.Code),
             time_limit_minutes |-> Int64Value(v.TimeLimitMinutes),
             expired |-> BoolValue(v.Expired)]
        vouchers == AppendAll(Make, [i \in 1..Len(Data) |-> Summary(Data[i])])
    IN  IF Failed(out)
        THEN Result(calls, <<ClientError("Unable to read vouchers: ", out)>>, <<>>)
        ELSE Result(calls, <<>>, <<[site_id |-> config.site_id, vouchers |-> ListFrom(vouchers)]>>)

\* VPNServersDataSource.Read
VPNServersDataSourceRead(config, out) ==
    LET calls == <<Call("ListVPNServers", [SiteID |-> ValueString(config.site_id)])>>
        Data == out.resp[1].Data.elems
        Summary(s) ==
            [id |-> StringValue(s.ID), name |-> StringValue(s.Name),
             type |-> StringValue(s.Type), enabled |-> BoolValue(s.Enabled)]
        servers == AppendAll(Make, [i \in 1..Len(Data) |-> Summary(Data[i])])
    IN  IF Failed(out)
        THEN Result(calls, <<ClientError("Unable to read VPN servers: ", out)>>, <<>>)
        ELSE Result(calls, <<>>, <<[site_id |-> config.site_id, servers |-> ListFrom(servers)]>>)

\* ACLRulesDataSource.Read
ACLRulesDataSourceRead(config, out) ==
    LET calls == <<Call("ListACLRules", [SiteID |-> ValueString(config.site_id)])>>
        Data == out.resp[1].Data.elems
        Summary(r) ==
            [id |-> StringValue(r.ID), name |-> StringValue(r.Name),
             type |-> StringValue(r.Type), enabled |-> BoolValue(r.Enabled),
             action |-> StringValue(r.Action)]
        rules == AppendAll(Make, [i \in 1..Len(Data) |-> Summary(Data[i])])
    IN  IF Failed(out)
        THEN Result(calls, <<ClientError("Unable to read ACL rules: ", out)>>, <<>>)
        ELSE Result(calls, <<>>, <<[site_id |-> config.site_id, rules |-> ListFrom(rules)]>>)

\* FirewallPoliciesDataSource.Read
FirewallPoliciesDataSourceRead(config, out) ==
    LET calls == <<Call("ListFirewallPolicies", [SiteID |-> ValueString(config.site_id)])>>
        Data == out.resp[1].Data.elems
        Summary(p) ==
            [id |-> StringValue(p.ID), name |-> StringValue(p.Name),
             enabled |-> BoolValue(p.Enabled)]
        policies == AppendAll(Make, [i \in 1..Len(Data) |-> Summary(Data[i])])
    IN  IF Failed(out)
        THEN Result(calls, <<ClientError("Unable to read firewall policies: ", out)>>, <<>>)
        ELSE Result(calls, <<>>, <<[site_id |-> config.site_id, policies |-> ListFrom(policies)]>>)

\* ClientsDataSource.Read
ClientsDataSourceRead(config, out) ==
    LET calls == <<Call("ListConnectedClients", [SiteID |-> ValueString(config.site_id)])>>
        Data == out.resp[1].Data.elems
        Summary(c) ==
            [id |-> StringValue(c.ID), name |-> StringValue(c.Name),
             type |-> StringValue(c.Type), mac_address |-> StringValue(c.MacAddress),
             ip_address |-> StringValue(c.IPAddress)]
        clients == AppendAll(Make, [i \in 1..Len(Data) |-> Summary(Data[i])])
    IN  IF Failed(out)
        THEN Result(calls, <<ClientError("Unable to read clients: ", out)>>, <<>>)
        ELSE Result(calls, <<>>, <<[site_id |-> config.site_id, clients |-> ListFrom(clients)]>>)

\* TrafficMatchingListsDataSource.Read
TrafficMatchingListsDataSourceRead(config, out) ==
    LET calls == <<Call("ListTrafficMatchingLists", [SiteID |-> ValueString(config.site_id)])>>
        Data == out.resp[1].Data.elems
        Summary(l) ==
            [id |-> StringValue(l.ID), name |-> StringValue(l.Name),
             type |-> StringValue(l.Type)]
        lists == AppendAll(Make, [i \in 1..Len(Data) |-> Summary(Data[i])])
    IN  IF Failed(out)
        THEN Result(calls, <<ClientError("Unable to read traffic matching lists: ", out)>>, <<>>)
        ELSE Result(calls, <<>>, <<[site_id |-> config.site_id, lists |-> ListFrom(lists)]>>)

\* DNSPoliciesDataSource.Read
DNSPoliciesDataSourceRead(config, out) ==
    LET calls == <<Call("ListDNSPolicies", [SiteID |-> ValueString(config.site_id)])>>
        Data == out.resp[1].Data.elems
        Summary(p) ==
            [id |-> StringValue(p.ID), type |-> StringValue(p.Type),
             enabled |-> BoolValue(p.Enabled), domain |-> StringValue(p.Domain)]
        policies == AppendAll(Make, [i \in 1..Len(Data) |-> Summary(Data[i])])
    IN  IF Failed(out)
        THEN Result(calls, <<ClientError("Unable to read DNS policies: ", out)>>, <<>>)
        ELSE Result(calls, <<>>, <<[site_id |-> config.site_id, policies |-> ListFrom(policies)]>>)

\* FirewallZonesDataSource.Read
FirewallZonesDataSourceRead(config, out) ==
    LET calls == <<Call("ListFirewallZones", [SiteID |-> ValueString(config.site_id)])>>
        Data == out.resp[1].Data.elems
        Summary(z) ==
            [id |-> StringValue(z.ID), name |-> StringValue(z.Name)]
        zones == AppendAll(Make, [i \in 1..Len(Data) |-> Summary(Data[i])])
    IN  IF Failed(out)
        THEN Result(calls, <<ClientError("Unable to read firewall zones: ", out)>>, <<>>)
        ELSE Result(calls, <<>>, <<[site_id |-> config.site_id, zones |-> ListFrom(zones)]>>)

\* WANInterfacesDataSource.Read
WANInterfacesDataSourceRead(config, out) ==
    LET calls == <<Call("ListWANInterfaces", [SiteID |-> ValueString(config.site_id)])>>
        Data == out.resp[1].Data.elems
        Summary(i) ==
            [id |-> StringValue(i.ID), name |-> StringValue(i.Name)]
        interfaces == AppendAll(Make, [i \in 1..Len(Data) |-> Summary(Data[i])])
    IN  IF Failed(out)
        THEN Result(calls, <<ClientError("Unable to read WAN interfaces: ", out)>>, <<>>)
        ELSE Result(calls, <<>>, <<[site_id |-> config.site_id, interfaces |-> ListFrom(interfaces)]>>)

\* RadiusProfilesDataSource.Read
RadiusProfilesDataSourceRead(config, out) ==
    LET calls == <<Call("ListRadiusProfiles", [SiteID |-> ValueString(config.site_id)])>>
        Data == out.resp[1].Data.elems
        Summary(p) ==
            [id |-> StringValue(p.ID), name |-> StringValue(p.Name)]
        profiles == AppendAll(Make, [i \in 1..Len(Data) |-> Summary(Data[i])])
    IN  IF Failed(out)
        THEN Result(calls, <<ClientError("Unable to read RADIUS profiles: ", out)>>, <<>>)
        ELSE Result(calls, <<>>, <<[site_id |-> config.site_id, profiles |-> ListFrom(profiles)]>>)

\* WifiBroadcastsDataSource.Read
WifiBroadcastsDataSourceRead(config, out) ==
    LET calls == <<Call("ListWifiBroadcasts", [SiteID |-> ValueString(config.site_id)])>>
        Data == out.resp[1].Data.elems
        Summary(b) ==
            [id |-> StringValue(b.ID), name |-> StringValue(b.Name),
             type |-> StringValue(b.Type), enabled |-> BoolValue(b.Enabled)]
        broadcasts == AppendAll(Make, [i \in 1..Len(Data) |-> Summary(Data[i])])
    IN  IF Failed(out)
        THEN Result(calls, <<ClientError("Unable to read WiFi broadcasts: ", out)>>, <<>>)
        ELSE Result(calls, <<>>, <<[site_id |-> config.site_id, broadcasts |-> ListFrom(broadcasts)]>>)

\* DevicesDataSource.Read
DevicesDataSourceRead(config, out) ==
    LET calls == <<Call("ListAdoptedDevices", [SiteID |-> ValueString(config.site_id)])>>
        Data == out.resp[1].Data.elems
        Summary(device) ==
            [id |-> StringValue(device.ID), name |-> StringValue(device.Name),
             mac_address |-> StringValue(device.MacAddress),
             ip_address |-> StringValue(device.IPAddress),
             model |-> StringValue(device.Model), state |-> StringValue(device.State),
             firmware_version |-> StringValue(device.FirmwareVersion)]
        devices == AppendAll(Make, [i \in 1..Len(Data) |-> Summary(Data[i])])
    IN  IF Failed(out)
        THEN Result(calls, <<ClientError("Unable to read devices: ", out)>>, <<>>)
        ELSE Result(calls, <<>>, <<[site_id |-> config.site_id, devices |-> ListFrom(devices)]>>)

\* SitesDataSource.Read: the request is empty and the model has no site_id.
SitesDataSourceRead(config, out) ==
    LET calls == <<Call("ListSites", <<>>)>>
        Data == out.resp[1].Data.elems
        Summary(site) ==
            [id |-> StringValue(site.ID), name |-> StringValue(site.Name),
             internal_reference |-> StringValue(site.InternalReference)]
        sites == AppendAll(Make, [i \in 1..Len(Data) |-> Summary(Data[i])])
    IN  IF Failed(out)
        THEN Result(calls, <<ClientError("Unable to read sites: ", out)>>, <<>>)
        ELSE Result(calls, <<>>, <<[sites |-> ListFrom(sites)]>>)

-----------------------------------------------------------------------------
(* The data sources of one object: unifi_network and unifi_device.         *)

LookupConfigs == [site_id : {StringValue(s) : s \in Sites}, id : {StringValue(i) : i \in IDs}]

\* networktypes.Network as NetworkDataSource.Read reads it.
NetworkDetails ==
    [Name : Names, Enabled : {TRUE}, VlanID : {100}, Management : {"gateway"},
     Default : BOOLEAN,
     IsolationEnabled : {NilPtr, Ptr(TRUE)},
     InternetAccessEnabled : {NilPtr, Ptr(FALSE)}]

Mut_NetworkDataSourceReadAbsentIsFalse(config, out) ==
    LET calls == <<Call("GetNetworkDetails", [SiteID |-> ValueString(config.site_id),
                                              NetworkID |-> ValueString(config.id)])>>
        networkResp == out.resp[1]
    IN  IF Failed(out)
        THEN Result(calls, <<ClientError("Unable to read network: ", out)>>, <<>>)
        ELSE Result(calls, <<>>,
               <<[site_id |-> config.site_id,
                  id |-> config.id,
                  name |-> StringValue(networkResp.Name),
                  enabled |-> BoolValue(networkResp.Enabled),
                  vlan_id |-> Int64Value(networkResp.VlanID),
                  management |-> StringValue(networkResp.Management),
                  default |-> BoolValue(networkResp.Default),
                  isolation_enabled |->
                      IF networkResp.IsolationEnabled # NilPtr
                      THEN BoolValue(networkResp.IsolationEnabled[1]) ELSE BoolValue(FALSE),
                  internet_access_enabled |->
                      IF networkResp.InternetAccessEnabled # NilPtr
                      THEN BoolValue(networkResp.InternetAccessEnabled[1])
                      ELSE BoolValue(FALSE)]>>)

\* NetworkDataSource.Read
NetworkDataSourceRead(config, out) ==
    LET calls == <<Call("GetNetworkDetails", [SiteID |-> ValueString(config.site_id),
                                              NetworkID |-> ValueString(config.id)])>>
        networkResp == out.resp[1]
    IN  IF Failed(out)
        THEN Result(calls, <<ClientError("Unable to read network: ", out)>>, <<>>)
        ELSE Result(calls, <<>>,
               <<[site_id |-> config.site_id,
                  id |-> config.id,
                  name |-> StringValue(networkResp.Name),
                  enabled |-> BoolValue(networkResp.Enabled),
                  vlan_id |-> Int64Value(networkResp.VlanID),
                  management |-> StringValue(networkResp.Management),
                  default |-> BoolValue(networkResp.Default),
                  isolation_enabled |->
                      IF networkResp.IsolationEnabled # NilPtr
                      THEN BoolValue(networkResp.IsolationEnabled[1]) ELSE BoolNull,
                  internet_access_enabled |->
                      IF networkResp.InternetAccessEnabled # NilPtr
                      THEN BoolValue(networkResp.InternetAccessEnabled[1]) ELSE BoolNull]>>)

\* networktypes.Device as DeviceDataSource.Read reads it.
DeviceDetails ==
    [Name : Names, MacAddress : {"00:00:5e:00:53:01"}, IPAddress : {"192.0.2.1"},
     Model : {"U6", "USW"}, State : {"ONLINE", "OFFLINE"}, FirmwareVersion : {"6.6.55"},
     Supported : BOOLEAN]

\* DeviceDataSource.Read
DeviceDataSourceRead(config, out) ==
    LET calls == <<Call("GetAdoptedDeviceDetails", [SiteID |-> ValueString(config.site_id),
                                                    DeviceID |-> ValueString(config.id)])>>
        result == out.resp[1]
    IN  IF Failed(out)
        THEN Result(calls, <<ClientError("Unable to read device: ", out)>>, <<>>)
        ELSE Result(calls, <<>>,
               <<[site_id |-> config.site_id,
                  id |-> config.id,
                  name |-> StringValue(result.Name),
                  mac_address |-> StringValue(result.MacAddress),
                  ip_address |-> StringValue(result.IPAddress),
                  model |-> StringValue(result.Model),
                  state |-> StringValue(result.State),
                  firmware_version |-> StringValue(result.FirmwareVersion),
                  supported |-> BoolValue(result.Supported)]>>)

-----------------------------------------------------------------------------
(* The managed object: one resource or data source of some type, driven by *)
(* the framework through its handlers.                                     *)

VoucherKinds == {"voucher", "voucher_limits"}
ResourceKinds == {"network", "wifi_broadcast", "firewall_zone", "acl_rule",
                  "traffic_matching_list", "dns_policy", "firewall_policy", "firewall_policy_nested", "voucher",
                  "voucher_limits"}
ListDataSourceKinds ==
    {"data.networks", "data.vouchers", "data.vpn_servers", "data.acl_rules",
     "data.firewall_policies", "data.clients", "data.traffic_matching_lists",
     "data.dns_policies", "data.firewall_zones", "data.wan_interfaces",
     "data.radius_profiles", "data.wifi_broadcasts", "data.devices", "data.sites"}
LookupDataSourceKinds == {"data.network", "data.device"}
DataSourceKinds == ListDataSourceKinds \cup LookupDataSourceKinds
Kinds == ResourceKinds \cup DataSourceKinds

\* The configurations of each resource type: required attributes set, optional ones
\* null or set.
Configs(k) ==
    CASE k = "network" ->
            AtMostSet([site_id : {StringValue(s) : s \in Sites},
                       name : {StringValue(n) : n \in Names},
                       enabled : {BoolNull, BoolValue(FALSE)},
                       vlan_id : {Int64Null, Int64Value(100)},
                       management : {StringNull, StringValue("gateway")},
                       isolation_enabled : {BoolNull, BoolValue(TRUE)},
                       internet_access_enabled : {BoolNull, BoolValue(FALSE)},
                       mdns_forwarding_enabled : {BoolNull, BoolValue(TRUE)}],
                      {"enabled", "vlan_id", "management", "isolation_enabled",
                       "internet_access_enabled", "mdns_forwarding_enabled"})
      [] k = "wifi_broadcast" ->
            AtMostSet([site_id : {StringValue(s) : s \in Sites},
                       name : {StringValue(n) : n \in Names},
                       type : {StringNull, StringValue("iot")},
                       enabled : {BoolNull, BoolValue(FALSE)},
                       network_id : {StringNull, StringValue("net-1")},
                       security_type : {StringNull, StringValue("open"), StringValue("wpa3")},
                       passphrase : {StringNull, StringValue("secret")},
                       hide_name : {BoolNull, BoolValue(TRUE)},
                       client_isolation_enabled : {BoolNull, BoolValue(TRUE)}],
                      {"type", "enabled", "network_id", "security_type", "passphrase",
                       "hide_name", "client_isolation_enabled"})
      [] k = "firewall_zone" ->
            [site_id : {StringValue(s) : s \in Sites},
             name : {StringValue(n) : n \in Names},
             network_ids : {ListNull, ListValue(<<>>), ListValue(<<StringValue("net-1")>>),
                            ListValue(<<StringValue("net-1"), StringNull>>)}]
      [] k = "acl_rule" ->
            AtMostSet([site_id : {StringValue(s) : s \in Sites},
                       name : {StringValue(n) : n \in Names},
                       type : {StringNull, StringValue("wireless")},
                       description : {StringNull, StringValue("text")},
                       enabled : {BoolNull, BoolValue(FALSE)},
                       action : {StringNull, StringValue("block")}],
                      {"type", "description", "enabled", "action"})
      [] k = "traffic_matching_list" ->
            [site_id : {StringValue(s) : s \in Sites},
             name : {StringValue(n) : n \in Names},
             type : {StringValue(t) : t \in ListTypes}]
      [] k = "dns_policy" ->
            AtMostSet([site_id : {StringValue(s) : s \in Sites},
                       type : {StringValue("A"), StringValue("AAAA")},
                       enabled : {BoolNull, BoolValue(FALSE)},
                       domain : {StringNull, StringValue("host.example")},
                       ipv4_address : {StringNull, StringValue("192.0.2.1")},
                       ipv6_address : {StringNull, StringValue("2001:db8::1")},
                       ttl_seconds : {Int64Null, Int64Value(300)}],
                      {"enabled", "domain", "ipv4_address", "ipv6_address", "ttl_seconds"})
      [] k = "firewall_policy" ->
            AtMostSet([site_id : {StringValue(s) : s \in Sites},
                       name : {StringValue(n) : n \in Names},
                       description : {StringNull, StringValue("text")},
                       enabled : {BoolNull, BoolValue(FALSE)},
                       action_type : {StringNull, StringValue("block")},
                       source_zone_id : {StringValue("zone-1")},
                       destination_zone_id : {StringValue(z) : z \in Zones},
                       logging_enabled : {BoolNull, BoolValue(TRUE)}],
                      {"description", "enabled", "action_type", "logging_enabled"})
      [] k = "firewall_policy_nested" ->
            LET TrafficFilter ==
                    ObjectValue([type |-> StringValue("PORT"),
                                 port_filter |->
                                     ObjectValue([type |-> StringValue("items"),
                                                  match_opposite |-> BoolNull,
                                                  traffic_matching_list_id |-> StringNull,
                                                  ports |-> ListValue(<<Int64Value(443)>>)]),
                                 network_filter |-> ObjectNull,
                                 ip_address_filter |-> ObjectNull,
                                 region_filter |-> ObjectNull])
                Endpoints(z) ==
                    {ObjectValue([zone_id |-> StringValue(z), traffic_filter |-> tf]) :
                        tf \in {ObjectNull, TrafficFilter}}
                Scope ==
                    ObjectValue([ip_version |-> StringValue("ipv4"),
                                 protocol_filter |->
                                     ObjectValue([type |-> StringValue("named"),
                                                  protocol_name |-> StringValue("tcp"),
                                                  protocol_number |-> Int64Null,
                                                  preset_name |-> StringNull,
                                                  match_opposite |-> BoolValue(TRUE)])])
                Schedule ==
                    ObjectValue([mode |-> StringValue("daily"),
                                 repeat_on_days |-> ListValue(<<StringValue("mon")>>),
                                 start_date |-> StringNull, stop_date |-> StringNull,
                                 start_time |-> StringValue("08:00"),
                                 stop_time |-> StringNull])
                Nested(c) ==
                    {a \in {"source", "destination"} : ~IsNull(c[a].value.traffic_filter)}
                    \cup (IF IsNull(c.action.value.allow_return_traffic) THEN {}
                          ELSE {"action"})
            IN  {c \in [site_id : {StringValue(s) : s \in Sites},
                        name : {StringValue("alpha")},
                        description : {StringNull, StringValue("text")},
                        enabled : {BoolNull, BoolValue(FALSE)},
                        action : {ObjectValue([type |-> StringValue("allow"),
                                               allow_return_traffic |-> a]) :
                                     a \in {BoolNull, BoolValue(TRUE)}},
                        source : Endpoints("zone-1"),
                        destination : Endpoints("zone-2"),
                        ip_protocol_scope : {ObjectNull, Scope},
                        connection_state_filter :
                            {ListNull, ListValue(<<StringValue("new")>>),
                             ListValue(<<StringValue("new"), StringNull>>)},
                        ipsec_filter : {StringNull, StringValue("match")},
                        logging_enabled : {BoolNull, BoolValue(TRUE)},
                        schedule : {ObjectNull, Schedule}] :
                   Cardinality(SetOf(c, {"description", "enabled", "ip_protocol_scope",
                                          "connection_state_filter", "ipsec_filter",
                                          "logging_enabled", "schedule"}))
                   + Cardinality(Nested(c)) <= MaxOptionalSet}
      [] k = "voucher" ->
            AtMostSet([site_id : {StringValue(s) : s \in Sites},
                       name : {StringValue(n) : n \in Names},
                       time_limit_minutes : {Int64Null, Int64Value(120)},
                       count : {Int64Null, Int64Value(3)}], {"time_limit_minutes", "count"})
      [] k = "voucher_limits" ->
            AtMostSet([site_id : {StringValue(s) : s \in Sites},
                       name : {StringValue(n) : n \in Names},
                       time_limit_minutes : {Int64Null, Int64Value(120)},
                       voucher_count : {Int64Null, Int64Value(3)},
                       authorized_guest_limit : {Int64Null, Int64Value(0)},
                       data_usage_limit_mbytes : {Int64Null, Int64Value(500)},
                       rx_rate_limit_kbps : {Int64Null, Int64Value(1000)},
                       tx_rate_limit_kbps : {Int64Null, Int64Value(2000)}],
                      {"time_limit_minutes", "voucher_count", "authorized_guest_limit",
                       "data_usage_limit_mbytes", "rx_rate_limit_kbps",
                       "tx_rate_limit_kbps"})

\* The object a read (and, but for vouchers, a create or update) returns, as the
\* handlers of each resource type read it.
Responses(k) ==
    CASE k = "network" ->
            [ID : IDs, Name : Names, Enabled : BOOLEAN, VlanID : {100}, Management : {"gateway"},
             Default : {FALSE},
             IsolationEnabled : {NilPtr, Ptr(TRUE)},
             InternetAccessEnabled : {Ptr(FALSE)},
             MdnsForwardingEnabled : {NilPtr}]
      [] k = "wifi_broadcast" ->
            [ID : IDs, Name : Names, Type : {"standard"}, Enabled : {FALSE}, HideName : {TRUE},
             ClientIsolationEnabled : {FALSE},
             Network : {NilPtr, Ptr([Type |-> "network", NetworkID |-> "net-2"])},
             SecurityConfiguration : {NilPtr, Ptr([Type |-> "wpa2wpa3", Passphrase |-> ""])}]
      [] k = "firewall_zone" ->
            [ID : IDs, Name : Names, NetworkIDs : {NilSlice, Slice(<<"net-2">>)}]
      [] k = "acl_rule" ->
            [ID : IDs, Name : Names, Type : {"wired"}, Description : {"", "remote"},
             Enabled : BOOLEAN, Action : {"block"}]
      [] k = "traffic_matching_list" ->
            [ID : IDs, Name : Names, Type : ListTypes]
      [] k = "dns_policy" ->
            [ID : IDs, Type : {"A", "CNAME"}, Enabled : BOOLEAN, Domain : {"remote.example"},
             IPv4Address : {"192.0.2.9"}, IPv6Address : {""}, TTLSeconds : {NilPtr, Ptr(60)}]
      [] k = "firewall_policy" ->
            [ID : IDs, Name : Names, Description : {"remote"}, Enabled : {FALSE},
             LoggingEnabled : {TRUE},
             Action : {NilPtr, Ptr([Type |-> "reject"])},
             Source : {NilPtr, Ptr([ZoneID |-> "zone-2"])},
             Destination : {Ptr([ZoneID |-> "zone-1"])}]
      [] k = "firewall_policy_nested" ->
            LET Bare == [Action |-> NilPtr, IPProtocolScope |-> NilPtr,
                         ConnectionStateFilter |-> NilSlice, Schedule |-> NilPtr]
                Full == [Action |-> Ptr([Type |-> "reject", AllowReturnTraffic |-> Ptr(FALSE)]),
                         IPProtocolScope |->
                             Ptr([IPVersion |-> "ipv6",
                                  ProtocolFilter |->
                                      Ptr([Type |-> "number", Protocol |-> NilPtr,
                                           ProtocolNumber |-> Ptr(17), Preset |-> NilPtr,
                                           MatchOpposite |-> NilPtr])]),
                         ConnectionStateFilter |-> Slice(<<"established">>),
                         Schedule |-> Ptr([Mode |-> "weekly", StartDate |-> "",
                                           StopDate |-> "", RepeatOnDays |-> NilSlice,
                                           TimeFilter |-> NilPtr])]
            IN  {[ID |-> i, Name |-> "beta", Description |-> "remote", Enabled |-> FALSE,
                  LoggingEnabled |-> TRUE, IpsecFilter |-> "any",
                  Source |-> src,
                  Destination |-> Ptr([ZoneID |-> "zone-2", TrafficFilter |-> NilPtr])]
                 @@ x :
                    i \in IDs,
                    src \in {NilPtr, Ptr([ZoneID |-> "zone-3",
                                          TrafficFilter |-> Ptr([Type |-> "PORT"])])},
                    x \in {Bare, Full}}
      [] k = "voucher" ->
            [ID : IDs, Name : Names, Code : Codes, TimeLimitMinutes : {60, 30}]
      [] k = "voucher_limits" ->
            [ID : {"id-1"}, Name : Names, Code : Codes, TimeLimitMinutes : {30},
             AuthorizedGuestLimit : {NilPtr, Ptr(4)},
             DataUsageLimitMBytes : {NilPtr, Ptr(0)},
             RxRateLimitKbps : {NilPtr},
             TxRateLimitKbps : {Ptr(64)}]

Plan(k, config, prior) ==
    CASE k = "network" -> NetworkPlan(config, prior)
      [] k = "wifi_broadcast" -> WifiPlan(config, prior)
      [] k = "firewall_zone" -> ZonePlan(config, prior)
      [] k = "acl_rule" -> ACLPlan(config, prior)
      [] k = "traffic_matching_list" -> TMLPlan(config, prior)
      [] k = "dns_policy" -> DNSPlan(config, prior)
      [] k = "firewall_policy" -> PolicyPlan(config, prior)
      [] k = "firewall_policy_nested" -> Policy2Plan(config, prior)
      [] k = "voucher" -> VoucherPlan(config, prior)
      [] k = "voucher_limits" -> Voucher2Plan(config, prior)

\* Computed attributes without configuration: a difference in them alone plans nothing.
ComputedOnly(k) == IF k \in {"voucher", "voucher_limits"} THEN {"id", "code"} ELSE {"id"}

\* Attributes whose change plans a replacement instead of an in-place update.
Mut_RequiresReplaceNone(k) == {}

RequiresReplace(k) ==
    CASE k = "network" -> {"site_id"}
      [] k = "wifi_broadcast" -> {"site_id"}
      [] k = "firewall_zone" -> {"site_id"}
      [] k = "acl_rule" -> {"site_id"}
      [] k = "traffic_matching_list" -> {"site_id"}
      [] k = "dns_policy" -> {"site_id"}
      [] k = "firewall_policy" -> {"site_id"}
      [] k = "firewall_policy_nested" -> {"site_id"}
      [] k = "voucher" -> {"site_id", "name"}
      [] k = "voucher_limits" -> {"site_id", "name"}

\* What the client call of each handler may return.
CreateOutcomes(k) ==
    IF k \in VoucherKinds THEN OkOutcomes(GenerateVouchersResponses) \cup ErrOutcomes
    ELSE OkOutcomes(Responses(k)) \cup ErrOutcomes

ReadOutcomes(k) == OkOutcomes(Responses(k)) \cup ErrOutcomes

\* The updated object the client returns is dropped by every Update (_, err := ...):
\* one response stands for all; the voucher Update makes no call.
UpdateOutcomes(k) ==
    IF k \in VoucherKinds THEN {NoOutcome}
    ELSE OkOutcomes({CHOOSE r \in Responses(k) : TRUE}) \cup ErrOutcomes

DeleteOutcomes == {NoOutcome} \cup ErrOutcomes

CreateHandler(k, plan, out) ==
    CASE k = "network" -> NetworkCreate(plan, out)
      [] k = "wifi_broadcast" -> WifiCreate(plan, out)
      [] k = "firewall_zone" -> ZoneCreate(plan, out)
      [] k = "acl_rule" -> ACLCreate(plan, out)
      [] k = "traffic_matching_list" -> TMLCreate(plan, out)
      [] k = "dns_policy" -> DNSCreate(plan, out)
      [] k = "firewall_policy" -> PolicyCreate(plan, out)
      [] k = "firewall_policy_nested" -> Policy2Create(plan, out)
      [] k = "voucher" -> VoucherCreate(plan, out)
      [] k = "voucher_limits" -> Voucher2Create(plan, out)

ReadHandler(k, prior, out) ==
    CASE k = "network" -> NetworkRead(prior, out)
      [] k = "wifi_broadcast" -> WifiRead(prior, out)
      [] k = "firewall_zone" -> ZoneRead(prior, out)
      [] k = "acl_rule" -> ACLRead(prior, out)
      [] k = "traffic_matching_list" -> TMLRead(prior, out)
      [] k = "dns_policy" -> DNSRead(prior, out)
      [] k = "firewall_policy" -> PolicyRead(prior, out)
      [] k = "firewall_policy_nested" -> Policy2Read(prior, out)
      [] k = "voucher" -> VoucherRead(prior, out)
      [] k = "voucher_limits" -> Voucher2Read(prior, out)

UpdateHandler(k, plan, prior, out) ==
    CASE k = "network" -> NetworkUpdate(plan, prior, out)
      [] k = "wifi_broadcast" -> WifiUpdate(plan, prior, out)
      [] k = "firewall_zone" -> ZoneUpdate(plan, prior, out)
      [] k = "acl_rule" -> ACLUpdate(plan, prior, out)
      [] k = "traffic_matching_list" -> TMLUpdate(plan, prior, out)
      [] k = "dns_policy" -> DNSUpdate(plan, prior, out)
      [] k = "firewall_policy" -> PolicyUpdate(plan, prior, out)
      [] k = "firewall_policy_nested" -> Policy2Update(plan, prior, out)
      [] k = "voucher" -> VoucherUpdate(plan, prior, out)
      [] k = "voucher_limits" -> Voucher2Update(plan, prior, out)

DeleteHandler(k, prior, out) ==
    CASE k = "network" -> NetworkDelete(prior, out)
      [] k = "wifi_broadcast" -> WifiDelete(prior, out)
      [] k = "firewall_zone" -> ZoneDelete(prior, out)
      [] k = "acl_rule" -> ACLDelete(prior, out)
      [] k = "traffic_matching_list" -> TMLDelete(prior, out)
      [] k = "dns_policy" -> DNSDelete(prior, out)
      [] k = "firewall_policy" -> PolicyDelete(prior, out)
      [] k = "firewall_policy_nested" -> Policy2Delete(prior, out)
      [] k = "voucher" -> VoucherDelete(prior, out)
      [] k = "voucher_limits" -> Voucher2Delete(prior, out)

\* The resource types that implement ImportState.
Importable == ResourceKinds \ VoucherKinds

\* The state ImportStatePassthroughID starts from: every attribute null.
NullState(k) ==
    CASE k = "network" ->
            [site_id |-> StringNull, id |-> StringNull, name |-> StringNull,
             enabled |-> BoolNull, vlan_id |-> Int64Null, management |-> StringNull,
             isolation_enabled |-> BoolNull, internet_access_enabled |-> BoolNull,
             mdns_forwarding_enabled |-> BoolNull]
      [] k = "wifi_broadcast" ->
            [site_id |-> StringNull, id |-> StringNull, name |-> StringNull,
             type |-> StringNull, enabled |-> BoolNull, network_id |-> StringNull,
             security_type |-> StringNull, passphrase |-> StringNull,
             hide_name |-> BoolNull, client_isolation_enabled |-> BoolNull]
      [] k = "firewall_zone" ->
            [site_id |-> StringNull, id |-> StringNull, name |-> StringNull,
             network_ids |-> ListNull]
      [] k = "acl_rule" ->
            [site_id |-> StringNull, id |-> StringNull, type |-> StringNull,
             name |-> StringNull, description |-> StringNull, enabled |-> BoolNull,
             action |-> StringNull]
      [] k = "traffic_matching_list" ->
            [site_id |-> StringNull, id |-> StringNull, name |-> StringNull,
             type |-> StringNull]
      [] k = "dns_policy" ->
            [site_id |-> StringNull, id |-> StringNull, type |-> StringNull,
             enabled |-> BoolNull, domain |-> StringNull, ipv4_address |-> StringNull,
             ipv6_address |-> StringNull, ttl_seconds |-> Int64Null]
      [] k = "firewall_policy" ->
            [site_id |-> StringNull, id |-> StringNull, name |-> StringNull,
             description |-> StringNull, enabled |-> BoolNull, action_type |-> StringNull,
             source_zone_id |-> StringNull, destination_zone_id |-> StringNull,
             logging_enabled |-> BoolNull]
      [] k = "firewall_policy_nested" ->
            [site_id |-> StringNull, id |-> StringNull, name |-> StringNull,
             description |-> StringNull, enabled |-> BoolNull, action |-> ObjectNull,
             source |-> ObjectNull, destination |-> ObjectNull,
             ip_protocol_scope |-> ObjectNull, connection_state_filter |-> ListNull,
             ipsec_filter |-> StringNull, logging_enabled |-> BoolNull,
             schedule |-> ObjectNull]

ImportIDs == {"site-1" \o ":" \o "id-1", "site-2" \o ":" \o "id-2", "id-1"}

\* The outcome recorded for an invocation: none when the handler made no call.
Seen(r, out) == IF r.calls = <<>> THEN NoOutcome ELSE out

\* Resource Configure / data source Configure: nil ProviderData is ignored.
Configure ==
    /\ last.op = "none" /\ client = <<>>
    /\ \E ProviderData \in {<<>>, IF kind \in ResourceKinds THEN provider.ResourceData
                                                          ELSE provider.DataSourceData} :
          /\ client' = IF ProviderData = <<>> THEN client ELSE <<ProviderData[1].Network>>
          /\ last' = [Idle EXCEPT !.op = "Configure", !.input = ProviderData]
    /\ UNCHANGED <<env, provider, kind, state>>

\* Create of a new resource, or the second half of a replacement: the Create that
\* follows the successful Delete of the object the planned configuration replaces.
Create ==
    /\ kind \in ResourceKinds /\ client # <<>> /\ state = <<>>
    /\ \E config \in Configs(kind), out \in CreateOutcomes(kind) :
          LET plan == Plan(kind, config, <<>>)
              r == CreateHandler(kind, plan, out)
          IN  /\ \/ last.op = "none"
                 \/ last.op = "Delete" /\ last.input = <<config>>
              /\ state' = r.State
              /\ last' = [op |-> "Create", input |-> <<config>>, plan |-> <<plan>>,
                          prior |-> state, calls |-> r.calls, diags |-> r.diags,
                          out |-> Seen(r, out)]
    /\ UNCHANGED <<env, provider, kind, client>>

Read ==
    /\ last.op = "none"
    /\ kind \in ResourceKinds /\ client # <<>> /\ state # <<>>
    /\ \E out \in ReadOutcomes(kind) :
          LET r == ReadHandler(kind, state[1], out)
          IN  /\ state' = r.State
              /\ last' = [op |-> "Read", input |-> <<>>, plan |-> <<>>,
                          prior |-> state, calls |-> r.calls, diags |-> r.diags,
                          out |-> Seen(r, out)]
    /\ UNCHANGED <<env, provider, kind, client>>

Update ==
    /\ last.op = "none"
    /\ kind \in ResourceKinds /\ client # <<>> /\ state # <<>>
    /\ \E config \in Configs(kind), out \in UpdateOutcomes(kind) :
          LET plan == Plan(kind, config, state)
              r == UpdateHandler(kind, plan, state[1], out)
          IN  /\ \E a \in DOMAIN plan \ ComputedOnly(kind) : plan[a] # state[1][a]
              /\ \A a \in RequiresReplace(kind) : plan[a] = state[1][a]
              /\ state' = r.State
              /\ last' = [op |-> "Update", input |-> <<config>>, plan |-> <<plan>>,
                          prior |-> state, calls |-> r.calls, diags |-> r.diags,
                          out |-> Seen(r, out)]
    /\ UNCHANGED <<env, provider, kind, client>>

\* Delete on destroy (no input) or as the first half of a replacement: the planned
\* configuration differs from state in an attribute that requires replacement (the
\* replacements explored change those attributes only). The framework drops the
\* resource from state when Delete returns without error.
Delete ==
    /\ last.op = "none"
    /\ kind \in ResourceKinds /\ client # <<>> /\ state # <<>>
    /\ \E out \in DeleteOutcomes,
          replacement \in {<<>>} \cup
              {<<c>> : c \in {c \in Configs(kind) :
                                LET plan == Plan(kind, c, state)
                                IN  /\ \E a \in RequiresReplace(kind) :
                                          plan[a] # state[1][a]
                                    /\ \A a \in DOMAIN plan \
                                              (ComputedOnly(kind) \cup RequiresReplace(kind)) :
                                          plan[a] = state[1][a]}} :
          LET r == DeleteHandler(kind, state[1], out)
          IN  /\ state' = IF HasError(r.diags) THEN r.State ELSE <<>>
              /\ last' = [op |-> "Delete", input |-> replacement, plan |-> <<>>,
                          prior |-> state, calls |-> r.calls, diags |-> r.diags,
                          out |-> Seen(r, out)]
    /\ UNCHANGED <<env, provider, kind, client>>

\* resource.ImportStatePassthroughID(ctx, path.Root("id"), req, resp)
ImportStatePassthroughID(k, attr, ID) == [NullState(k) EXCEPT ![attr] = StringValue(ID)]

ImportState ==
    /\ last.op = "none"
    /\ kind \in Importable /\ client # <<>> /\ state = <<>>
    /\ \E ID \in ImportIDs :
          /\ state' = <<ImportStatePassthroughID(kind, "id", ID)>>
          /\ last' = [Idle EXCEPT !.op = "ImportState", !.input = <<ID>>]
    /\ UNCHANGED <<env, provider, kind, client>>

DataSourceConfigs(k) ==
    CASE k = "data.sites" -> {[sites |-> ListNull]}
      [] k \in LookupDataSourceKinds -> LookupConfigs
      [] OTHER -> SiteConfigs

DataSourceOutcomes(k) ==
    CASE k = "data.network" -> OkOutcomes(NetworkDetails) \cup ErrOutcomes
      [] k = "data.device" -> OkOutcomes(DeviceDetails) \cup ErrOutcomes
      [] OTHER -> OkOutcomes(ListResponses(ListItems(k))) \cup ErrOutcomes

DataSourceHandler(k, config, out) ==
    CASE k = "data.network" -> NetworkDataSourceRead(config, out)
      [] k = "data.device" -> DeviceDataSourceRead(config, out)
      [] k = "data.sites" -> SitesDataSourceRead(config, out)
      [] k = "data.networks" -> NetworksDataSourceRead(config, out)
      [] k = "data.vouchers" -> VouchersDataSourceRead(config, out)
      [] k = "data.vpn_servers" -> VPNServersDataSourceRead(config, out)
      [] k = "data.acl_rules" -> ACLRulesDataSourceRead(config, out)
      [] k = "data.firewall_policies" -> FirewallPoliciesDataSourceRead(config, out)
      [] k = "data.clients" -> ClientsDataSourceRead(config, out)
      [] k = "data.traffic_matching_lists" -> TrafficMatchingListsDataSourceRead(config, out)
      [] k = "data.dns_policies" -> DNSPoliciesDataSourceRead(config, out)
      [] k = "data.firewall_zones" -> FirewallZonesDataSourceRead(config, out)
      [] k = "data.wan_interfaces" -> WANInterfacesDataSourceRead(config, out)
      [] k = "data.radius_profiles" -> RadiusProfilesDataSourceRead(config, out)
      [] k = "data.wifi_broadcasts" -> WifiBroadcastsDataSourceRead(config, out)
      [] k = "data.devices" -> DevicesDataSourceRead(config, out)

\* The list attribute of each list data source.
ListAttr(k) ==
    CASE k = "data.sites" -> "sites"
      [] k = "data.networks" -> "networks"
      [] k = "data.vouchers" -> "vouchers"
      [] k = "data.vpn_servers" -> "servers"
      [] k = "data.acl_rules" -> "rules"
      [] k = "data.firewall_policies" -> "policies"
      [] k = "data.clients" -> "clients"
      [] k = "data.traffic_matching_lists" -> "lists"
      [] k = "data.dns_policies" -> "policies"
      [] k = "data.firewall_zones" -> "zones"
      [] k = "data.wan_interfaces" -> "interfaces"
      [] k = "data.radius_profiles" -> "profiles"
      [] k = "data.wifi_broadcasts" -> "broadcasts"
      [] k = "data.devices" -> "devices"

\* A data source's Read: the state is written only by a successful handler.
DataSourceRead ==
    /\ last.op = "none"
    /\ kind \in DataSourceKinds /\ client # <<>>
    /\ \E config \in DataSourceConfigs(kind), out \in DataSourceOutcomes(kind) :
          LET r == DataSourceHandler(kind, config, out)
          IN  /\ state' = IF r.State = <<>> THEN state ELSE r.State
              /\ last' = [op |-> "DataSourceRead", input |-> <<config>>, plan |-> <<>>,
                          prior |-> state, calls |-> r.calls, diags |-> r.diags,
                          out |-> Seen(r, out)]
    /\ UNCHANGED <<env, provider, kind, client>>

\* The RPC returns: the request and the response of the invocation are gone.
Done ==
    /\ last.op # "none"
    /\ last' = Idle
    /\ UNCHANGED <<env, provider, kind, client, state>>

DefaultProviderConfig == [api_key |-> StringNull, base_url |-> StringNull]
DefaultEnv == [UNIFI_API_KEY |-> "env-key", UNIFI_BASE_URL |-> ""]

Init ==
    /\ env = DefaultEnv
    /\ provider = ProviderConfigureResp(DefaultProviderConfig, env)
    /\ kind \in Kinds
    /\ client = <<>>
    /\ state = <<>>
    /\ last = Idle

Next ==
    \/ Configure
    \/ Create
    \/ Read
    \/ Update
    \/ Delete
    \/ ImportState
    \/ DataSourceRead
    \/ Done

Spec == Init /\ [][Next]_vars

-----------------------------------------------------------------------------
(* Properties.                                                             *)

CRUD == {"Create", "Read", "Update", "Delete"}
Succeeded == last.calls # <<>> /\ ~Failed(last.out)

DecodeFailed ==
    /\ last.op \in {"Create", "Update"}
    /\ \/ /\ kind = "firewall_zone"
          /\ HasError(ElementsAs(last.plan[1].network_ids).diags)
       \/ /\ kind = "firewall_policy_nested"
          /\ HasError(buildCreateRequest(last.plan[1]).diags)

\* C2 as stated: every Create, Read, Update or Delete invocation whose
\* plan/state decoding succeeds invokes exactly one client method exactly once.
C2_ExactlyOneCall ==
    (last.op \in CRUD /\ ~DecodeFailed) => Len(last.calls) = 1

\* C2, amended: every Create, Read, Update or Delete invocation whose
\* decoding succeeds makes exactly one client call, also when that call
\* fails (no retry), except the voucher Update, which makes none; an
\* invocation whose decoding fails makes none.
C2_OneCallExceptVoucherUpdate ==
    last.op \in CRUD =>
        Len(last.calls) = IF (kind \in VoucherKinds /\ last.op = "Update") \/ DecodeFailed
                          THEN 0 ELSE 1

C2_Witness ==
    /\ kind = "firewall_zone" /\ last.op = "Update"
    /\ Failed(last.out) /\ Len(last.calls) = 1

\* The empty function: a response that carries no attribute.
Nothing == [a \in {} |-> a]

\* The attribute values a read response carries, by resource type.
Carried(k, r) ==
    CASE k = "network" ->
            [name |-> StringValue(r.Name), enabled |-> BoolValue(r.Enabled),
             vlan_id |-> Int64Value(r.VlanID), management |-> StringValue(r.Management)]
            @@ (IF r.IsolationEnabled # NilPtr
               THEN "isolation_enabled" :> BoolValue(r.IsolationEnabled[1]) ELSE Nothing)
            @@ (IF r.InternetAccessEnabled # NilPtr
               THEN "internet_access_enabled" :> BoolValue(r.InternetAccessEnabled[1])
               ELSE Nothing)
            @@ (IF r.MdnsForwardingEnabled # NilPtr
               THEN "mdns_forwarding_enabled" :> BoolValue(r.MdnsForwardingEnabled[1])
               ELSE Nothing)
      [] k = "wifi_broadcast" ->
            [name |-> StringValue(r.Name), type |-> StringValue(r.Type),
             enabled |-> BoolValue(r.Enabled), hide_name |-> BoolValue(r.HideName),
             client_isolation_enabled |-> BoolValue(r.ClientIsolationEnabled)]
            @@ (IF r.Network # NilPtr
               THEN "network_id" :> StringValue(r.Network[1].NetworkID) ELSE Nothing)
            @@ (IF r.SecurityConfiguration # NilPtr
               THEN "security_type" :> StringValue(r.SecurityConfiguration[1].Type)
               ELSE Nothing)
      [] k = "firewall_zone" ->
            [name |-> StringValue(r.Name),
             network_ids |-> IF r.NetworkIDs.nil THEN ListNull
                             ELSE ListValue([i \in 1..Len(r.NetworkIDs.elems) |->
                                               StringValue(r.NetworkIDs.elems[i])])]
      [] k = "acl_rule" ->
            [type |-> StringValue(r.Type), name |-> StringValue(r.Name),
             description |-> StringValue(r.Description), enabled |-> BoolValue(r.Enabled),
             action |-> StringValue(r.Action)]
      [] k = "traffic_matching_list" ->
            [name |-> StringValue(r.Name), type |-> StringValue(r.Type)]
      [] k = "dns_policy" ->
            [type |-> StringValue(r.Type), enabled |-> BoolValue(r.Enabled),
             domain |-> StringValue(r.Domain), ipv4_address |-> StringValue(r.IPv4Address),
             ipv6_address |-> StringValue(r.IPv6Address)]
            @@ (IF r.TTLSeconds # NilPtr
               THEN "ttl_seconds" :> Int64Value(r.TTLSeconds[1]) ELSE Nothing)
      [] k = "firewall_policy" ->
            [name |-> StringValue(r.Name), description |-> StringValue(r.Description),
             enabled |-> BoolValue(r.Enabled),
             logging_enabled |-> BoolValue(r.LoggingEnabled)]
            @@ (IF r.Action # NilPtr
               THEN "action_type" :> StringValue(r.Action[1].Type) ELSE Nothing)
            @@ (IF r.Source # NilPtr
               THEN "source_zone_id" :> StringValue(r.Source[1].ZoneID) ELSE Nothing)
            @@ (IF r.Destination # NilPtr
               THEN "destination_zone_id" :> StringValue(r.Destination[1].ZoneID)
               ELSE Nothing)
      [] k = "firewall_policy_nested" ->
            LET mapped == mapResponseToModel(r, NullState(k))
            IN  [name |-> StringValue(r.Name), description |-> StringValue(r.Description),
                 enabled |-> BoolValue(r.Enabled),
                 logging_enabled |-> BoolValue(r.LoggingEnabled),
                 ipsec_filter |-> StringValue(r.IpsecFilter)]
                @@ (IF r.Action # NilPtr THEN "action" :> mapped.action ELSE Nothing)
                @@ (IF r.Source # NilPtr
                    THEN "source" :> ObjectValue([zone_id |-> StringValue(r.Source[1].ZoneID),
                                                  traffic_filter |-> ObjectNull])
                    ELSE Nothing)
                @@ (IF r.Destination # NilPtr
                    THEN "destination" :>
                            ObjectValue([zone_id |-> StringValue(r.Destination[1].ZoneID),
                                         traffic_filter |-> ObjectNull])
                    ELSE Nothing)
                @@ (IF r.IPProtocolScope # NilPtr
                    THEN "ip_protocol_scope" :> mapped.ip_protocol_scope ELSE Nothing)
                @@ (IF Len(r.ConnectionStateFilter.elems) > 0
                    THEN "connection_state_filter" :> mapped.connection_state_filter
                    ELSE Nothing)
                @@ (IF r.Schedule # NilPtr THEN "schedule" :> mapped.schedule ELSE Nothing)
      [] k = "voucher" ->
            [name |-> StringValue(r.Name), code |-> StringValue(r.Code),
             time_limit_minutes |-> Int64Value(r.TimeLimitMinutes)]
      [] k = "voucher_limits" ->
            [name |-> StringValue(r.Name), code |-> StringValue(r.Code),
             time_limit_minutes |-> Int64Value(r.TimeLimitMinutes)]
            @@ (IF r.AuthorizedGuestLimit # NilPtr
               THEN "authorized_guest_limit" :> Int64Value(r.AuthorizedGuestLimit[1])
               ELSE Nothing)
            @@ (IF r.DataUsageLimitMBytes # NilPtr
               THEN "data_usage_limit_mbytes" :> Int64Value(r.DataUsageLimitMBytes[1])
               ELSE Nothing)
            @@ (IF r.RxRateLimitKbps # NilPtr
               THEN "rx_rate_limit_kbps" :> Int64Value(r.RxRateLimitKbps[1]) ELSE Nothing)
            @@ (IF r.TxRateLimitKbps # NilPtr
               THEN "tx_rate_limit_kbps" :> Int64Value(r.TxRateLimitKbps[1]) ELSE Nothing)

\* The state holds the values the response of the last call carries.
HoldsResponse ==
    LET carried == Carried(kind, last.out.resp[1])
    IN  \A a \in DOMAIN carried : state[1][a] = carried[a]

Created ==
    LET r == last.out.resp[1]
    IN  IF kind \notin VoucherKinds THEN [last.plan[1] EXCEPT !.id = StringValue(r.ID)]
        ELSE IF Len(r.Vouchers) > 0
        THEN [last.plan[1] EXCEPT !.id = StringValue(r.Vouchers[1].ID),
                                  !.code = StringValue(r.Vouchers[1].Code)]
        ELSE last.plan[1]

ResultingKey ==
    LET config == last.input[1]
    IN  IF config.api_key.state # "null" THEN config.api_key.value ELSE env.UNIFI_API_KEY

\* C4: provider Configure takes the API key from the api_key attribute when
\* it is set and otherwise from UNIFI_API_KEY; an empty key is reported as
\* 'Missing UniFi API Key' on attribute api_key and no client data is
\* supplied; otherwise resources and data sources get one and the same
\* clients object, built with that key.
C4_ApiKeyPrecedence ==
    last.op = "ProviderConfigure" =>
        IF ResultingKey = ""
        THEN /\ Len(provider.diags) = 1
             /\ provider.diags[1].severity = "error"
             /\ provider.diags[1].summary = "Missing UniFi API Key"
             /\ provider.diags[1].path = "api_key"
             /\ provider.ResourceData = <<>> /\ provider.DataSourceData = <<>>
        ELSE /\ provider.diags = <<>>
             /\ provider.ResourceData # <<>>
             /\ provider.ResourceData = provider.DataSourceData
             /\ provider.ResourceData[1].Network.apiKey = ResultingKey
             /\ provider.ResourceData[1].SiteManager.apiKey = ResultingKey

C4_Witness ==
    /\ last.op = "ProviderConfigure"
    /\ last.input[1].api_key = StringValue("cfg-key")
    /\ env.UNIFI_API_KEY = "env-key"
    /\ provider.ResourceData # <<>>

\* C5 as stated: a network or a WiFi broadcast imported with the ID
\* site_id:resource_id has, after ImportState, the part before the colon as
\* site_id and the part after it as id.
C5_ImportSplitsID ==
    \A s \in Sites, i \in IDs :
        (/\ last.op = "ImportState" /\ kind \in {"network", "wifi_broadcast"}
         /\ last.input = <<s \o ":" \o i>>) =>
            /\ state[1].site_id = StringValue(s)
            /\ state[1].id = StringValue(i)

\* C6 as stated: a unifi_wifi_broadcast Create or Update whose security_type
\* is not open and whose passphrase is null is rejected with an error and
\* does not call the API.
C6_PassphraseRequired ==
    (/\ kind = "wifi_broadcast" /\ last.op \in {"Create", "Update"}
     /\ last.plan[1].security_type # StringValue("open")
     /\ IsNull(last.plan[1].passphrase)) =>
        /\ HasError(last.diags)
        /\ last.calls = <<>>

\* C7: a voucher Update fails with the single error 'Update Not Supported',
\* makes no client call and writes no state: the state after it is the state
\* before it.
C7_VoucherUpdateNotSupported ==
    (kind \in VoucherKinds /\ last.op = "Update") =>
        /\ Len(last.diags) = 1
        /\ last.diags[1].severity = "error"
        /\ last.diags[1].summary = "Update Not Supported"
        /\ last.calls = <<>>
        /\ state = last.prior

C7_Witness ==
    /\ kind = "voucher" /\ last.op = "Update"
    /\ last.plan[1].time_limit_minutes # last.prior[1].time_limit_minutes
    /\ state = last.prior

\* C8 as stated: after a successful voucher Create, for every response, the
\* state's id and code are the ID and code of the first voucher in it.
C8_FirstVoucherAlways ==
    (kind \in VoucherKinds /\ last.op = "Create" /\ Succeeded) =>
        LET v == last.out.resp[1].Vouchers
        IN  /\ Len(v) > 0
            /\ state[1].id = StringValue(v[1].ID)
            /\ state[1].code = StringValue(v[1].Code)

\* C8, amended: after a successful voucher Create whose response holds at
\* least one voucher, the state's id and code are the ID and code of the
\* first voucher, whatever the requested count; when the response holds no
\* voucher, id and code stay unknown, as planned.
C8_FirstVoucherIfAny ==
    (kind \in VoucherKinds /\ last.op = "Create" /\ Succeeded) =>
        LET v == last.out.resp[1].Vouchers
        IN  IF Len(v) > 0
            THEN /\ state[1].id = StringValue(v[1].ID)
                 /\ state[1].code = StringValue(v[1].Code)
            ELSE /\ state[1].id = StringUnknown
                 /\ state[1].code = StringUnknown

C8_Witness ==
    /\ kind = "voucher" /\ last.op = "Create" /\ Succeeded
    /\ Len(last.out.resp[1].Vouchers) = 2
    /\ last.out.resp[1].Vouchers[1] # last.out.resp[1].Vouchers[2]
    /\ last.calls[1].req.Count = Ptr(3)
    /\ state[1].code = StringValue(last.out.resp[1].Vouchers[1].Code)

\* C9: for unifi_network, each optional attribute omitted from the
\* configuration reaches the Create request as its default (enabled=true,
\* vlan_id=1, management='third-party', isolation_enabled=false,
\* internet_access_enabled=true, mdns_forwarding_enabled=false), and the state
\* after a successful Create holds the same value.
C9_NetworkDefaults ==
    (kind = "network" /\ last.op = "Create") =>
        LET config == last.input[1]
            req == last.calls[1].req
            Holds(attr, value) == Succeeded => state[1][attr] = value
        IN  /\ Len(last.calls) = 1
            /\ IsNull(config.enabled) =>
                  req.Enabled = TRUE /\ Holds("enabled", BoolValue(TRUE))
            /\ IsNull(config.vlan_id) =>
                  req.VlanID = 1 /\ Holds("vlan_id", Int64Value(1))
            /\ IsNull(config.management) =>
                  req.Management = "third-party"
                  /\ Holds("management", StringValue("third-party"))
            /\ IsNull(config.isolation_enabled) =>
                  req.IsolationEnabled = Ptr(FALSE)
                  /\ Holds("isolation_enabled", BoolValue(FALSE))
            /\ IsNull(config.internet_access_enabled) =>
                  req.InternetAccessEnabled = Ptr(TRUE)
                  /\ Holds("internet_access_enabled", BoolValue(TRUE))
            /\ IsNull(config.mdns_forwarding_enabled) =>
                  req.MdnsForwardingEnabled = Ptr(FALSE)
                  /\ Holds("mdns_forwarding_enabled", BoolValue(FALSE))

C9_Witness ==
    /\ kind = "network" /\ last.op = "Create" /\ Succeeded
    /\ \A a \in DOMAIN last.input[1] \ {"site_id", "name"} : IsNull(last.input[1][a])
    /\ state[1].vlan_id = Int64Value(1)

\* The attributes of one entry of each list data source and the response field of each.
EntryFields(k) ==
    CASE k = "data.networks" ->
            {<<"id", "ID">>, <<"name", "Name">>, <<"enabled", "Enabled">>,
             <<"vlan_id", "VlanID">>, <<"management", "Management">>,
             <<"default", "Default">>}
      [] k = "data.vouchers" ->
            {<<"id", "ID">>, <<"name", "Name">>, <<"code", "Code">>,
             <<"time_limit_minutes", "TimeLimitMinutes">>, <<"expired", "Expired">>}
      [] k = "data.vpn_servers" ->
            {<<"id", "ID">>, <<"name", "Name">>, <<"type", "Type">>,
             <<"enabled", "Enabled">>}
      [] k = "data.acl_rules" ->
            {<<"id", "ID">>, <<"name", "Name">>, <<"type", "Type">>,
             <<"enabled", "Enabled">>, <<"action", "Action">>}
      [] k = "data.firewall_policies" ->
            {<<"id", "ID">>, <<"name", "Name">>, <<"enabled", "Enabled">>}
      [] k = "data.clients" ->
            {<<"id", "ID">>, <<"name", "Name">>, <<"type", "Type">>,
             <<"mac_address", "MacAddress">>, <<"ip_address", "IPAddress">>}
      [] k = "data.traffic_matching_lists" ->
            {<<"id", "ID">>, <<"name", "Name">>, <<"type", "Type">>}
      [] k = "data.dns_policies" ->
            {<<"id", "ID">>, <<"type", "Type">>, <<"enabled", "Enabled">>,
             <<"domain", "Domain">>}
      [] k = "data.firewall_zones" ->
            {<<"id", "ID">>, <<"name", "Name">>}
      [] k = "data.wan_interfaces" ->
            {<<"id", "ID">>, <<"name", "Name">>}
      [] k = "data.radius_profiles" ->
            {<<"id", "ID">>, <<"name", "Name">>}
      [] k = "data.wifi_broadcasts" ->
            {<<"id", "ID">>, <<"name", "Name">>, <<"type", "Type">>,
             <<"enabled", "Enabled">>}
      [] k = "data.devices" ->
            {<<"id", "ID">>, <<"name", "Name">>, <<"mac_address", "MacAddress">>,
             <<"ip_address", "IPAddress">>, <<"model", "Model">>, <<"state", "State">>,
             <<"firmware_version", "FirmwareVersion">>}
      [] k = "data.sites" ->
            {<<"id", "ID">>, <<"name", "Name">>,
             <<"internal_reference", "InternalReference">>}

\* C10: a successful list data source Read writes one entry per item of the
\* response, in the response's order and with that item's field values; an
\* empty response yields an empty list, not a null one; site_id in state is
\* the configured site_id (unifi_sites has no site_id: its state is the list).
C10_ListEntriesFollowResponse ==
    (last.op = "DataSourceRead" /\ kind \in ListDataSourceKinds /\ Succeeded) =>
        LET Data == last.out.resp[1].Data.elems
            list == state[1][ListAttr(kind)]
        IN  /\ list.state = "known"
            /\ Len(list.value) = Len(Data)
            /\ \A i \in 1..Len(Data) :
                  /\ DOMAIN list.value[i] = {f[1] : f \in EntryFields(kind)}
                  /\ \A f \in EntryFields(kind) :
                        /\ list.value[i][f[1]].state = "known"
                        /\ list.value[i][f[1]].value = Data[i][f[2]]
            /\ IF kind = "data.sites" THEN DOMAIN state[1] = {"sites"}
               ELSE state[1].site_id = last.input[1].site_id

C10_Witness ==
    /\ last.op = "DataSourceRead" /\ kind = "data.networks" /\ Succeeded
    /\ Len(last.out.resp[1].Data.elems) = 2
    /\ last.out.resp[1].Data.elems[1] # last.out.resp[1].Data.elems[2]
    /\ state[1].networks.value[2].name =
          StringValue(last.out.resp[1].Data.elems[2].Name)

\* The endpoint of a request carries the planned endpoint, traffic filter included.
EndpointConverted(ptr, obj) ==
    /\ ptr # NilPtr
    /\ ptr[1].ZoneID = ValueString(obj.value.zone_id)
    /\ IF IsNull(obj.value.traffic_filter) THEN ptr[1].TrafficFilter = NilPtr
       ELSE /\ ptr[1].TrafficFilter # NilPtr
            /\ ptr[1].TrafficFilter[1].Type = ValueString(obj.value.traffic_filter.value.type)

\* The endpoint in state reproduces the endpoint of a response, traffic filter included.
EndpointReproduced(obj, ptr) ==
    ptr # NilPtr =>
        /\ obj.value.zone_id = StringValue(ptr[1].ZoneID)
        /\ IF ptr[1].TrafficFilter = NilPtr THEN IsNull(obj.value.traffic_filter)
           ELSE /\ ~IsNull(obj.value.traffic_filter)
                /\ obj.value.traffic_filter.value.type
                       = StringValue(ptr[1].TrafficFilter[1].Type)

\* C11 as stated: for the firewall policy with nested objects, the request of a
\* Create or Update carries every nested object of the plan field by field,
\* the traffic_filter of source and destination included, and a successful
\* Read reproduces the traffic filter of the response's endpoints in state.
C11_NestedObjectsConverted ==
    kind = "firewall_policy_nested" =>
        /\ (last.op \in {"Create", "Update"} /\ last.calls # <<>>) =>
              LET req == last.calls[1].req
                  plan == last.plan[1]
              IN  /\ req.Action # NilPtr
                  /\ req.Action[1].Type = ValueString(plan.action.value.type)
                  /\ (req.Action[1].AllowReturnTraffic # NilPtr)
                         <=> ~IsNull(plan.action.value.allow_return_traffic)
                  /\ (req.IPProtocolScope # NilPtr) <=> ~IsNull(plan.ip_protocol_scope)
                  /\ (req.Schedule # NilPtr) <=> ~IsNull(plan.schedule)
                  /\ EndpointConverted(req.Source, plan.source)
                  /\ EndpointConverted(req.Destination, plan.destination)
        /\ (last.op = "Read" /\ Succeeded) =>
              /\ EndpointReproduced(state[1].source, last.out.resp[1].Source)
              /\ EndpointReproduced(state[1].destination, last.out.resp[1].Destination)

\* The limit attributes of unifi_voucher and the request field of each.
VoucherLimits ==
    {<<"authorized_guest_limit", "AuthorizedGuestLimit">>,
     <<"data_usage_limit_mbytes", "DataUsageLimitMBytes">>,
     <<"rx_rate_limit_kbps", "RxRateLimitKbps">>,
     <<"tx_rate_limit_kbps", "TxRateLimitKbps">>}

\* C12: the GenerateVouchers request of a voucher Create carries nil for each
\* limit the configuration omits (never 0) and exactly the configured value
\* for each limit it sets.
C12_OmittedLimitIsNil ==
    (kind = "voucher_limits" /\ last.op = "Create") =>
        /\ Len(last.calls) = 1
        /\ last.calls[1].method = "GenerateVouchers"
        /\ \A l \in VoucherLimits :
              last.calls[1].req[l[2]] =
                  IF IsNull(last.input[1][l[1]]) THEN NilPtr
                  ELSE Ptr(last.input[1][l[1]].value)

C12_Witness ==
    /\ kind = "voucher_limits" /\ last.op = "Create"
    /\ last.input[1].authorized_guest_limit = Int64Value(0)
    /\ last.calls[1].req.AuthorizedGuestLimit = Ptr(0)
    /\ IsNull(last.input[1].rx_rate_limit_kbps)
    /\ last.calls[1].req.RxRateLimitKbps = NilPtr

\* The base URL Configure decides on for the last provider configuration.
ResultingURL ==
    LET config == last.input[1]
    IN  IF config.base_url.state # "null" THEN config.base_url.value ELSE env.UNIFI_BASE_URL

\* C13: the base URL is the base_url attribute when it is set and otherwise
\* UNIFI_BASE_URL; a non-empty one is passed as the single WithBaseURL option
\* to both the Network and the SiteManager client, and with an empty one both
\* clients are built without any option.
C13_BaseURLPrecedence ==
    (last.op = "ProviderConfigure" /\ provider.ResourceData # <<>>) =>
        \A c \in {provider.ResourceData[1].Network, provider.ResourceData[1].SiteManager,
                  provider.DataSourceData[1].Network, provider.DataSourceData[1].SiteManager} :
            IF ResultingURL = "" THEN c.opts = <<>>
            ELSE /\ Len(c.opts) = 1
                 /\ c.opts[1].option = "WithBaseURL"
                 /\ c.opts[1].url = ResultingURL

C13_Witness ==
    /\ last.op = "ProviderConfigure" /\ provider.ResourceData # <<>>
    /\ last.input[1].base_url = StringValue("https://cfg.example")
    /\ env.UNIFI_BASE_URL = "https://env.example"
    /\ provider.ResourceData[1].SiteManager.opts[1].url = "https://cfg.example"

\* C14: a successful Read of the unifi_network data source sets name, enabled,
\* vlan_id, management and default from the response, sets isolation_enabled
\* and internet_access_enabled to the response's value when it is present and
\* to null when it is absent, and keeps the configured site_id and id.
C14_NetworkDataSourceFields ==
    (kind = "data.network" /\ last.op = "DataSourceRead" /\ Succeeded) =>
        LET r == last.out.resp[1]
            config == last.input[1]
            st == state[1]
        IN  /\ st.site_id = config.site_id
            /\ st.id = config.id
            /\ st.name = [state |-> "known", value |-> r.Name]
            /\ st.enabled = [state |-> "known", value |-> r.Enabled]
            /\ st.vlan_id = [state |-> "known", value |-> r.VlanID]
            /\ st.management = [state |-> "known", value |-> r.Management]
            /\ st.default = [state |-> "known", value |-> r.Default]
            /\ IF r.IsolationEnabled = <<>> THEN st.isolation_enabled.state = "null"
               ELSE st.isolation_enabled = [state |-> "known", value |-> r.IsolationEnabled[1]]
            /\ IF r.InternetAccessEnabled = <<>>
               THEN st.internet_access_enabled.state = "null"
               ELSE st.internet_access_enabled
                        = [state |-> "known", value |-> r.InternetAccessEnabled[1]]

C14_Witness ==
    /\ kind = "data.network" /\ last.op = "DataSourceRead" /\ Succeeded
    /\ last.out.resp[1].IsolationEnabled = <<>>
    /\ last.out.resp[1].InternetAccessEnabled = <<FALSE>>
    /\ state[1].isolation_enabled.state = "null"
    /\ state[1].internet_access_enabled = [state |-> "known", value |-> FALSE]

\* ---------------------------------------------------------------------------
\* C15: vouchers are immutable: every planned change to a configurable attribute
\* of an existing voucher (site_id, name, time_limit_minutes, count/voucher_count,
\* the limits) is carried out as a replacement and never reaches the in-place
\* Update handler. Update is planned exactly when a configurable attribute
\* differs from state and no attribute marked RequiresReplace does, so the
\* statement is that no voucher ever has Update invoked on it.
C15_VoucherChangeReplaces ==
    kind \in VoucherKinds => last.op # "Update"

\* ---------------------------------------------------------------------------
\* C16: for every resource a change of site_id plans a replacement: Update is
\* never invoked with a planned site_id different from the one in state; the
\* Delete of a replacement addresses the old object in the site recorded in
\* state; and the Create of the replacement runs only after that Delete has
\* succeeded and the old object has left the state.
C16_SiteChangeReplaces ==
    [][ /\ last'.op = "Update" =>
               last'.plan[1].site_id = last'.prior[1].site_id
        /\ (last'.op = "Delete" /\ last'.input # <<>>) =>
               /\ Len(last'.calls) = 1
               /\ last'.calls[1].req.SiteID = ValueString(state[1].site_id)
        /\ (last.op = "Delete" /\ last'.op = "Create") =>
               /\ state = <<>>
               /\ ~HasError(last.diags)
               /\ last.calls[1].req.SiteID = ValueString(last.prior[1].site_id)
               /\ last'.input = last.input
      ]_vars

C16_Witness ==
    /\ last.op = "Delete" /\ last.input # <<>>
    /\ Plan(kind, last.input[1], last.prior).site_id # last.prior[1].site_id
    /\ last.calls[1].req.SiteID = ValueString(last.prior[1].site_id)
    /\ state = <<>>

\* ---------------------------------------------------------------------------
\* C17: for unifi_wifi_broadcast, security_type defaults to wpa2; the request of
\* Create and of Update always has a security configuration whose type is the
\* planned security_type (wpa2 when the configuration omits it), holding the
\* passphrase only when passphrase is set and known, and has a network
\* reference, of type 'network', only when network_id is set and known.
C17_WifiSecurityAndNetwork ==
    (kind = "wifi_broadcast" /\ last.op \in {"Create", "Update"} /\ last.calls # <<>>) =>
        LET config == last.input[1]
            plan == last.plan[1]
            req == last.calls[1].req
        IN  /\ plan.security_type =
                   IF config.security_type.state = "null"
                   THEN [state |-> "known", value |-> "wpa2"]
                   ELSE config.security_type
            /\ req.SecurityConfiguration # <<>>
            /\ req.SecurityConfiguration[1].Type = plan.security_type.value
            /\ req.SecurityConfiguration[1].Passphrase =
                   IF plan.passphrase.state = "known" THEN plan.passphrase.value ELSE ""
            /\ req.Network =
                   IF plan.network_id.state = "known"
                   THEN <<[Type |-> "network", NetworkID |-> plan.network_id.value]>>
                   ELSE <<>>

C17_Witness ==
    /\ kind = "wifi_broadcast" /\ last.op = "Update" /\ last.calls # <<>>
    /\ last.input[1].security_type.state = "null"
    /\ last.calls[1].req.SecurityConfiguration[1].Type = "wpa2"
    /\ last.calls[1].req.SecurityConfiguration[1].Passphrase = ""
    /\ last.calls[1].req.Network # <<>>

-----------------------------------------------------------------------------
(* Concurrent handler invocations. The framework serves each request with a *)
(* resource object of its own, calls Configure on it, then the handler; the  *)
(* handler decodes the plan or state into a local model, calls the client    *)
(* and writes the state. Here two instances of one resource type have their  *)
(* handlers interleaved step by step. In this specification state, and each  *)
(* field of last, is a function of the instance.                             *)

Instances == {1, 2}

\* The resource object and the handler's local model (var data ...Model) an
\* invocation for instance i works on: each invocation has its own.
Mut_FrameShared(i) == 1

Frame(i) == i

\* The handler that runs in frame f, given the remote's outcome.
Handle(k, f, out) ==
    CASE f.op = "Create" -> CreateHandler(k, f.plan[1], out)
      [] f.op = "Read" -> ReadHandler(k, f.prior[1], out)
      [] f.op = "Update" -> UpdateHandler(k, f.plan[1], f.prior[1], out)
      [] f.op = "Delete" -> DeleteHandler(k, f.prior[1], out)

NoFrame == [client |-> <<>>, op |-> "none", plan |-> <<>>, prior |-> <<>>]

InitConcurrent ==
    /\ env = DefaultEnv
    /\ provider = ProviderConfigureResp(DefaultProviderConfig, env)
    /\ kind \in {"traffic_matching_list"}
    /\ client = <<provider.ResourceData[1].Network>>
    /\ state = [i \in Instances |-> <<>>]
    /\ last = [pc |-> [i \in Instances |-> "idle"],
               frame |-> [i \in Instances |-> NoFrame],
               given |-> [i \in Instances |-> NoFrame],
               sent |-> [i \in Instances |-> <<>>],
               out |-> [i \in Instances |-> NoOutcome]]

\* The framework invokes a handler for instance i: Configure stores the provider's
\* client in the object, and the handler decodes its plan and prior state.
\* Instance i is configured in the i-th site under the i-th name.
Invoke(i) ==
    /\ last.pc[i] = "idle"
    /\ \E op \in {"Create", "Read", "Update", "Delete"},
          config \in {c \in Configs(kind) :
                          /\ c.site_id = StringValue(IF i = 1 THEN "site-1" ELSE "site-2")
                          /\ c.name = StringValue(IF i = 1 THEN "alpha" ELSE "beta")} :
          LET plan == Plan(kind, config, state[i])
              f == [client |-> client, op |-> op,
                    plan |-> IF op \in {"Create", "Update"} THEN <<plan>> ELSE <<>>,
                    prior |-> state[i]]
          IN  /\ (op = "Create") = (state[i] = <<>>)
              /\ op = "Update" =>
                     /\ \E a \in DOMAIN plan \ ComputedOnly(kind) : plan[a] # state[i][1][a]
                     /\ \A a \in RequiresReplace(kind) : plan[a] = state[i][1][a]
              /\ last' = [last EXCEPT !.pc[i] = "decoded",
                                      !.frame[Frame(i)] = f,
                                      !.given[i] = f]
    /\ UNCHANGED <<env, provider, kind, client, state>>

\* The handler builds its request from its model and calls the client.
Request(i) ==
    /\ last.pc[i] = "decoded"
    /\ LET f == last.frame[Frame(i)]
       IN  /\ f.client # <<>>
           /\ \E out \in CASE f.op = "Create" -> CreateOutcomes(kind)
                           [] f.op = "Read" -> ReadOutcomes(kind)
                           [] f.op = "Update" -> UpdateOutcomes(kind)
                           [] f.op = "Delete" -> DeleteOutcomes :
                 last' = [last EXCEPT !.pc[i] = "called",
                                      !.sent[i] = Handle(kind, f, out).calls,
                                      !.out[i] = out]
    /\ UNCHANGED <<env, provider, kind, client, state>>

\* The call returns and the handler writes the state of its instance.
Return(i) ==
    /\ last.pc[i] = "called"
    /\ LET f == last.frame[Frame(i)]
           r == Handle(kind, f, last.out[i])
       IN  state' = [state EXCEPT ![i] = IF f.op = "Delete" /\ ~HasError(r.diags)
                                         THEN <<>> ELSE r.State]
    /\ last' = [last EXCEPT !.pc[i] = "returned"]
    /\ UNCHANGED <<env, provider, kind, client>>

\* The invocation ends; its object and its model are discarded.
Finish(i) ==
    /\ last.pc[i] = "returned"
    /\ last' = [last EXCEPT !.pc[i] = "idle", !.frame[Frame(i)] = NoFrame,
                            !.given[i] = NoFrame, !.sent[i] = <<>>, !.out[i] = NoOutcome]
    /\ UNCHANGED <<env, provider, kind, client, state>>

NextConcurrent ==
    \E i \in Instances :
        \/ Invoke(i)
        \/ Request(i)
        \/ Return(i)
        \/ Finish(i)

SpecConcurrent == InitConcurrent /\ [][NextConcurrent]_vars

RequestID(req) ==
    LET f == CHOOSE f \in {"NetworkID", "WifiBroadcastID", "ZoneID", "RuleID", "ListID",
                           "PolicyID", "VoucherID"} : f \in DOMAIN req
    IN  req[f]

CreatedID(resp) ==
    IF "Vouchers" \in DOMAIN resp
    THEN IF Len(resp.Vouchers) > 0 THEN <<resp.Vouchers[1].ID>> ELSE <<>>
    ELSE <<resp.ID>>

IdentityKept ==
    /\ (last'.op \in {"Read", "Update"}) =>
           /\ state' # <<>>
           /\ state'[1].id = state[1].id
           /\ state'[1].site_id = state[1].site_id
    /\ (last'.op \in {"Read", "Update", "Delete"} /\ last'.calls # <<>>) =>
           \A n \in 1..Len(last'.calls) :
               /\ last'.calls[n].req.SiteID = state[1].site_id.value
               /\ RequestID(last'.calls[n].req) = state[1].id.value

C19_IdentityStable ==
    [][ /\ IdentityKept
        /\ (last'.op = "Create" /\ state' # <<>>) =>
               /\ last'.out.resp # <<>>
               /\ CreatedID(last'.out.resp[1]) # <<>>
               /\ state'[1].id =
                      [state |-> "known", value |-> CreatedID(last'.out.resp[1])[1]]
               /\ \A a \in DOMAIN state'[1] \ {"id"} : state'[1][a] = last'.plan[1][a]
      ]_vars

\* C19, amended: as above, except that a voucher's Create also takes code from
\* the first voucher of the response, and leaves id and code unknown, as
\* planned, when the response holds no voucher.
C19_IdentityStableVoucherCode ==
    [][ /\ IdentityKept
        /\ (last'.op = "Create" /\ state' # <<>>) =>
               LET created == CreatedID(last'.out.resp[1])
                   fromResponse == IF created = <<>> THEN {}
                                   ELSE IF kind \in VoucherKinds THEN {"id", "code"}
                                   ELSE {"id"}
               IN  /\ last'.out.resp # <<>>
                   /\ created # <<>> =>
                          state'[1].id = [state |-> "known", value |-> created[1]]
                   /\ (created # <<>> /\ kind \in VoucherKinds) =>
                          state'[1].code =
                              [state |-> "known",
                               value |-> last'.out.resp[1].Vouchers[1].Code]
                   /\ \A a \in DOMAIN state'[1] \ fromResponse :
                          state'[1][a] = last'.plan[1][a]
      ]_vars

C19_Witness ==
    /\ last.op = "Update" /\ last.calls # <<>> /\ last.out.err # <<>>
    /\ state # <<>> /\ state = last.prior
    /\ last.calls[1].req.SiteID = state[1].site_id.value
    /\ RequestID(last.calls[1].req) = state[1].id.value
    /\ state[1].id.state = "known" /\ state[1].site_id.state = "known"

\* ---------------------------------------------------------------------------
\* C20: no Read removes the resource from state. A Read or Delete to which the
\* client returns an error fails with a Client Error and leaves the state as it
\* was; so once the remote object is gone and the client returns an error for
\* every call made for it, every later Read and Delete fails and the resource
\* stays in state for ever.
C20_ReadNeverRemoves ==
    /\ [][ /\ last'.op = "Read" => state' # <<>>
           /\ (last'.op \in {"Read", "Delete"} /\ last'.out.err # <<>>) =>
                  /\ state' = state /\ state' # <<>>
                  /\ \E n \in 1..Len(last'.diags) :
                         /\ last'.diags[n].severity = "error"
                         /\ last'.diags[n].summary = "Client Error"
         ]_vars
    /\ []((/\ last.op = "none" /\ state # <<>>
           /\ [](last.calls # <<>> => last.out.err # <<>>))
          => [](state # <<>>))

C20_Witness ==
    /\ last.op = "Delete" /\ last.out.err # <<>>
    /\ last.prior # <<>> /\ state = last.prior
    /\ \E n \in 1..Len(last.diags) : last.diags[n].summary = "Client Error"

====
